---- MODULE Spec2Model ----
(***************************************************************************)
(* Smart-Warehouse: the dispatch and routing engine of backend/main.py and *)
(* backend/services/optimization_service.py, over the data model of        *)
(* backend/models/warehouse.py.                                            *)
(*                                                                         *)
(* Positions are <<x, y>> pairs; a grid is indexed grid[y][x] as the numpy *)
(* array of WarehouseGrid is.  Python lists are 1-based sequences here.    *)
(***************************************************************************)
EXTENDS Integers, Sequences, FiniteSets, TLC

VARIABLES
    robots,          \* main.py `robots`: the fleet, a sequence of Robot records
    current_orders,  \* main.py `current_orders`: sequence of Order records
    simulation,      \* TRUE once start_simulation has scheduled run_simulation
    last_dispatch,   \* history: what the latest create_order computed and claimed
    hin,             \* input of the function a harness applies
    hout             \* its output (done is FALSE until it was applied)

vars == <<robots, current_orders, simulation, last_dispatch, hin, hout>>

----------------------------------------------------------------------------
(* Small helpers *)

Abs(n) == IF n < 0 THEN -n ELSE n

Max(a, b) == IF a >= b THEN a ELSE b

Min(a, b) == IF a <= b THEN a ELSE b

Range(s) == {s[i] : i \in DOMAIN s}

\* abs(a.x - b.x) + abs(a.y - b.y), positions as <<x, y>>
Manhattan(a, b) == Abs(a[1] - b[1]) + Abs(a[2] - b[2])

----------------------------------------------------------------------------
(* Python floats: IEEE 754 doubles, rounded to nearest, ties to even.        *)
(*                                                                         *)
(* A natural number of any size is the sequence of its base-2^14 digits,    *)
(* lowest first, without leading zero digits (zero is <<>>).  A double that *)
(* is not negative is [m, e] for the value m * 2^e, with m = 0 (and e = 0)  *)
(* or m a natural of exactly 53 bits.                                      *)

LimbBits == 14
LimbBase == 16384
MantissaBits == 53

RECURSIVE Pow2(_)
Pow2(n) == IF n = 0 THEN 1 ELSE 2 * Pow2(n - 1)

RECURSIVE BitLength(_)
BitLength(n) == IF n = 0 THEN 0 ELSE 1 + BitLength(n \div 2)

RECURSIVE BNorm(_)
BNorm(a) ==
    IF a = <<>> THEN a
    ELSE IF a[Len(a)] = 0 THEN BNorm(SubSeq(a, 1, Len(a) - 1))
    ELSE a

RECURSIVE BFromInt(_)
BFromInt(n) == IF n = 0 THEN <<>> ELSE <<n % LimbBase>> \o BFromInt(n \div LimbBase)

RECURSIVE BAddCarry(_, _, _)
BAddCarry(a, b, carry) ==
    IF a = <<>> /\ b = <<>> THEN (IF carry = 0 THEN <<>> ELSE <<carry>>)
    ELSE LET x == IF a = <<>> THEN 0 ELSE Head(a)
             y == IF b = <<>> THEN 0 ELSE Head(b)
             sum == x + y + carry
         IN  <<sum % LimbBase>> \o
             BAddCarry(IF a = <<>> THEN a ELSE Tail(a),
                       IF b = <<>> THEN b ELSE Tail(b), sum \div LimbBase)

BAdd(a, b) == BAddCarry(a, b, 0)

\* a * k for a digit-sized k (0 < k <= LimbBase)
RECURSIVE BMulSmallCarry(_, _, _)
BMulSmallCarry(a, k, carry) ==
    IF a = <<>> THEN (IF carry = 0 THEN <<>> ELSE <<carry>>)
    ELSE LET prod == Head(a) * k + carry
         IN  <<prod % LimbBase>> \o BMulSmallCarry(Tail(a), k, prod \div LimbBase)

BMulSmall(a, k) == BNorm(BMulSmallCarry(a, k, 0))

RECURSIVE BMulRaw(_, _)
BMulRaw(a, b) ==
    IF b = <<>> THEN <<>>
    ELSE BAdd(BMulSmallCarry(a, Head(b), 0), <<0>> \o BMulRaw(a, Tail(b)))

BMul(a, b) == BNorm(BMulRaw(a, b))

\* The quotient digits (highest first in `acc`) and the remainder of a / k
RECURSIVE BDivSmallFrom(_, _, _, _, _)
BDivSmallFrom(a, k, i, rem, acc) ==
    IF i = 0 THEN [q |-> BNorm(acc), r |-> rem]
    ELSE LET cur == rem * LimbBase + a[i]
         IN  BDivSmallFrom(a, k, i - 1, cur % k, <<cur \div k>> \o acc)

BDivSmall(a, k) == BDivSmallFrom(a, k, Len(a), 0, <<>>)

BBitLength(a) ==
    IF a = <<>> THEN 0 ELSE LimbBits * (Len(a) - 1) + BitLength(a[Len(a)])

\* a * 2^s and a div 2^s
BShl(a, s) ==
    IF a = <<>> THEN a
    ELSE [i \in 1..(s \div LimbBits) |-> 0] \o BMulSmall(a, Pow2(s % LimbBits))

BShr(a, s) ==
    IF s \div LimbBits >= Len(a) THEN <<>>
    ELSE BDivSmall(SubSeq(a, (s \div LimbBits) + 1, Len(a)), Pow2(s % LimbBits)).q

BIsOdd(a) == a # <<>> /\ a[1] % 2 = 1

FZero == [m |-> <<>>, e |-> 0]

\* m * 2^e for m of MantissaBits bits, or of one more when rounding carried
FPack(m, e) ==
    IF BBitLength(m) > MantissaBits THEN [m |-> BShr(m, 1), e |-> e + 1]
    ELSE [m |-> m, e |-> e]

\* q2 is n without its k - 1 lowest bits: the mantissa and the bit under it.
\* Round up when that bit is set and either a lower bit is or the mantissa is odd
FRoundHalf(n, e, sticky, k, q2) ==
    FPack(IF BIsOdd(q2) /\ (sticky \/ BShl(q2, k - 1) # n \/ BIsOdd(BShr(q2, 1)))
          THEN BAdd(BShr(q2, 1), <<1>>)
          ELSE BShr(q2, 1),
          e + k)

\* n has k bits more than a mantissa holds
FRoundBits(n, e, sticky, k) ==
    IF k <= 0 THEN [m |-> BShl(n, -k), e |-> e + k]
    ELSE FRoundHalf(n, e, sticky, k, BShr(n, k - 1))

\* The double nearest to (n + d) * 2^e, where 0 <= d < 1 and d > 0 iff `sticky`
\* (n has more than MantissaBits bits when sticky)
FRound(n, e, sticky) ==
    IF n = <<>> THEN FZero
    ELSE FRoundBits(n, e, sticky, BBitLength(n) - MantissaBits)

FRoundQuotient(d, e) == FRound(d.q, e, d.r # 0)

\* a / b for integers a >= 0 and 0 < b <= LimbBase: Python's true division
FDivInt(a, b) ==
    FRoundQuotient(BDivSmall(BShl(BFromInt(a), 5 * LimbBits), b), -(5 * LimbBits))

FMul(x, y) == FRound(BMul(x.m, y.m), x.e + y.e, FALSE)

FAddAt(x, y, e) == FRound(BAdd(BShl(x.m, x.e - e), BShl(y.m, y.e - e)), e, FALSE)

FAdd(x, y) ==
    IF x.m = <<>> THEN y
    ELSE IF y.m = <<>> THEN x
    ELSE FAddAt(x, y, Min(x.e, y.e))

\* The highest digit in which a and b differ decides (a and b of equal length)
RECURSIVE BGreaterFrom(_, _, _)
BGreaterFrom(a, b, i) ==
    IF i = 0 THEN FALSE
    ELSE IF a[i] # b[i] THEN a[i] > b[i]
    ELSE BGreaterFrom(a, b, i - 1)

\* x > y
FGreater(x, y) ==
    IF x.m = <<>> THEN FALSE
    ELSE IF y.m = <<>> THEN TRUE
    ELSE IF x.e # y.e THEN x.e > y.e
    ELSE BGreaterFrom(x.m, y.m, Len(x.m))

\* float(n) for an integer n >= 0
FFromInt(n) == FDivInt(n, 1)

\* x / n for a double x and an integer 0 < n <= LimbBase
FDivSmall(x, n) ==
    FRoundQuotient(BDivSmall(BShl(x.m, 2 * LimbBits), n), x.e - 2 * LimbBits)

\* p / 2^s rounded to the nearest integer, ties to even; q2 is p without its
\* s - 1 lowest bits
BRoundShrHalf(p, s, q2) ==
    IF BIsOdd(q2) /\ (BShl(q2, s - 1) # p \/ BIsOdd(BShr(q2, 1)))
    THEN BAdd(BShr(q2, 1), <<1>>)
    ELSE BShr(q2, 1)

BRoundShr(p, s) ==
    IF s <= 0 THEN BShl(p, -s) ELSE BRoundShrHalf(p, s, BShr(p, s - 1))

\* round(x, 2): the exact value of x is rounded to a whole number of
\* hundredths, ties to even, and the double nearest to that decimal is returned
PyRound2(x) ==
    FRoundQuotient(BDivSmall(BShl(BRoundShr(BMulSmall(x.m, 100), -x.e), 5 * LimbBits), 100),
                   -(5 * LimbBits))

----------------------------------------------------------------------------
(* WarehouseGrid *)

\* Cell kinds of WarehouseGrid.grid
WALKABLE == 0
SHELF == 1
ENTRANCE == 2
EXIT == 3

CellKinds == {WALKABLE, SHELF, ENTRANCE, EXIT}

\* WarehouseGrid.is_valid_position: in bounds and grid[y, x] == 0
is_valid_position(wg, x, y) ==
    IF 0 <= x /\ x < wg.cols /\ 0 <= y /\ y < wg.rows
    THEN wg.grid[y][x] = WALKABLE
    ELSE FALSE

\* WarehouseGrid(rows=50, cols=50) of main.py, scaled down so that a search of
\* one aisle block stays small; Cols keeps the four robots of
\* initialize_warehouse and the first shelf row (the inventory) where they are
Rows == 8
Cols == 40

\* create_shelf_layout, "main aisles (horizontal)": for row in range(5, rows, 8)
\* rows row..row+1 are aisle and rows row+2..row+5 are shelf
HorizontalKind(y) ==
    IF y >= 5 /\ ((y - 5) % 8) \in 2..5 THEN SHELF ELSE WALKABLE

\* create_shelf_layout, "vertical aisles": for col in range(5, cols, 10) columns
\* col..col+1 are aisle and col+2..col+5 are shelf, over every row; the other
\* columns keep what the horizontal pass wrote
VerticalKind(x, y) ==
    IF x >= 5 /\ ((x - 5) % 10) \in 0..1 THEN WALKABLE
    ELSE IF x >= 5 /\ ((x - 5) % 10) \in 2..5 THEN SHELF
    ELSE HorizontalKind(y)

\* self.entrances and self.exits of create_shelf_layout
LayoutEntrances(rows, cols) == << <<0, 5>>, <<0, 15>>, <<0, 25>> >>

LayoutExits(rows, cols) == << <<cols - 1, 5>>, <<cols - 1, 15>>, <<cols - 1, 25>> >>

\* The grid after create_shelf_layout: the aisle/shelf pattern, then the
\* entrances marked 2, then the exits marked 3
LayoutGrid(rows, cols) ==
    [y \in 0..(rows - 1) |->
        [x \in 0..(cols - 1) |->
            IF <<x, y>> \in Range(LayoutExits(rows, cols)) THEN EXIT
            ELSE IF <<x, y>> \in Range(LayoutEntrances(rows, cols)) THEN ENTRANCE
            ELSE VerticalKind(x, y)]]

\* _create_shelf_locations: the shelf cells in row-major order (rows y and after)
RECURSIVE ShelfScan(_, _, _, _)
ShelfScan(grid, rows, cols, y) ==
    IF y >= rows THEN <<>>
    ELSE SelectSeq([i \in 1..cols |-> <<i - 1, y>>], LAMBDA c : grid[c[2]][c[1]] = SHELF)
            \o ShelfScan(grid, rows, cols, y + 1)

\* initialize_inventory: the product names, in order
Products == <<"Laptop", "Smartphone", "Tablet", "Headphones", "Camera", "Speaker",
              "T-Shirt", "Jeans", "Shoes", "Jacket", "Book", "Notebook", "Pen",
              "Coffee Mug", "Water Bottle">>

\* initialize_inventory: product i is placed on shelf i while shelves last
InitialInventory(shelves) ==
    [i \in 1..Min(Len(Products), Len(shelves)) |->
        [name |-> Products[i], location_x |-> shelves[i][1], location_y |-> shelves[i][2]]]

\* create_shelf_layout followed by initialize_inventory
create_shelf_layout(rows, cols) ==
    LET g == LayoutGrid(rows, cols)
        sh == ShelfScan(g, rows, cols, 0)
    IN  [rows |-> rows, cols |-> cols, grid |-> g,
         exits |-> LayoutExits(rows, cols),
         entrances |-> LayoutEntrances(rows, cols),
         shelves |-> sh,
         inventory |-> InitialInventory(sh)]

\* main.py: warehouse_grid after initialize_warehouse
warehouse_grid == create_shelf_layout(Rows, Cols)

----------------------------------------------------------------------------
(* OptimizationService._find_path: A* over the 4-connected grid *)

\* _heuristic: Manhattan distance
_heuristic(a, b) == Manhattan(a, b)

\* The neighbour offsets in the order the code tries them
Directions == << <<0, 1>>, <<1, 0>>, <<0, -1>>, <<-1, 0>> >>

\* Python's tuple order on heap entries (f, (x, y))
HeapLess(a, b) ==
    \/ a[1] < b[1]
    \/ a[1] = b[1] /\ a[2][1] < b[2][1]
    \/ a[1] = b[1] /\ a[2][1] = b[2][1] /\ a[2][2] < b[2][2]

\* The largest entry of the heap
HeapMin_largest(open_set) == CHOOSE e \in open_set : \A o \in open_set : o = e \/ HeapLess(o, e)

\* heapq.heappop: the smallest entry of the heap
HeapMin(open_set) == CHOOSE e \in open_set : \A o \in open_set : o = e \/ HeapLess(e, o)

\* The body of `for dx, dy in [...]` for the k-th direction and after, on the
\* search state st = [open_set, came_from, g_score]
RECURSIVE CheckNeighbors(_, _, _, _, _)
CheckNeighbors(st, current, goal, wg, k) ==
    IF k > Len(Directions) THEN st
    ELSE
        LET n == <<current[1] + Directions[k][1], current[2] + Directions[k][2]>>
            tentative_g == st.g_score[current] + 1
        IN  IF ~is_valid_position(wg, n[1], n[2])
            THEN CheckNeighbors(st, current, goal, wg, k + 1)
            ELSE IF n \notin DOMAIN st.g_score \/ tentative_g < st.g_score[n]
            THEN CheckNeighbors(
                    [open_set  |-> st.open_set \cup {<<tentative_g + _heuristic(n, goal), n>>},
                     came_from |-> (n :> current) @@ st.came_from,
                     g_score   |-> (n :> tentative_g) @@ st.g_score],
                    current, goal, wg, k + 1)
            ELSE CheckNeighbors(st, current, goal, wg, k + 1)

\* The walk back from the goal without the reversal
RECURSIVE ReconstructPath_unreversed(_, _, _)
ReconstructPath_unreversed(came_from, current, acc) ==
    IF current \in DOMAIN came_from
    THEN ReconstructPath_unreversed(came_from, came_from[current],
                         acc \o <<[x |-> current[1], y |-> current[2], action |-> "move"]>>)
    ELSE acc

\* "Reconstruct path": walk came_from back from the goal, then reverse
RECURSIVE ReconstructPath(_, _, _)
ReconstructPath(came_from, current, acc) ==
    IF current \in DOMAIN came_from
    THEN ReconstructPath(came_from, came_from[current],
                         <<[x |-> current[1], y |-> current[2], action |-> "move"]>> \o acc)
    ELSE acc

\* No step at all when no path is found
DirectPath_none(goal) == <<>>

\* "If no path found, return direct path": the goal as the only step
DirectPath(goal) == <<[x |-> goal[1], y |-> goal[2], action |-> "move"]>>

\* The `while open_set` loop
RECURSIVE AStarLoop(_, _, _)
AStarLoop(st, goal, wg) ==
    IF st.open_set = {}
    THEN DirectPath(goal)
    ELSE
        LET e == HeapMin(st.open_set)
            current == e[2]
        IN  IF current = goal
            THEN ReconstructPath(st.came_from, current, <<>>)
            ELSE AStarLoop(
                    CheckNeighbors([st EXCEPT !.open_set = @ \ {e}], current, goal, wg, 1),
                    goal, wg)

\* The path with the start cell as its first step
_find_path_with_start(start, goal, wg) ==
    <<[x |-> start[1], y |-> start[2], action |-> "move"]>> \o
    AStarLoop([open_set  |-> {<<0, start>>},
               came_from |-> <<>>,
               g_score   |-> (start :> 0)],
              goal, wg)

_find_path(start, goal, wg) ==
    AStarLoop([open_set  |-> {<<0, start>>},
               came_from |-> <<>>,
               g_score   |-> (start :> 0)],
              goal, wg)

----------------------------------------------------------------------------
(* OptimizationService._find_best_robot *)

\* Batteries are counted in tenths of a percent (update_robots drains 0.1)
BatteryThreshold == 200

\* The threshold taken as battery >= 20
IsAvailable_inclusive(r) == r.status = "idle" /\ r.battery >= BatteryThreshold

\* robot.status == "idle" and robot.battery > 20
IsAvailable(r) == r.status = "idle" /\ r.battery > BatteryThreshold

\* The indices of `candidates` that pass the filter, in list order
AvailableRobots(candidates) ==
    SelectSeq([i \in 1..Len(candidates) |-> i], LAMBDA i : IsAvailable(candidates[i]))

\* The literals 0.4 and 0.2: the doubles nearest to 2/5 and 1/5
Float04 == FDivInt(2, 5)

Float02 == FDivInt(1, 5)

\* score = (1 / (distance + 1)) * 0.4 + battery_score * 0.4 + efficiency_score * 0.2
\* in doubles, every operation rounded, the sum taken from the left.
\* battery / 100 is (tenths / 10) / 100; the quotient is that of the code for the
\* whole percents a battery takes while no robot drains by 0.1
RobotScore(r, loc) ==
    LET distance == Abs(r.x - loc.x) + Abs(r.y - loc.y)
        battery_score == FDivInt(r.battery, 10 * 100)
        efficiency_score == FDivInt(r.orders_completed, Max(r.total_distance_traveled, 1))
    IN  FAdd(FAdd(FMul(FDivInt(1, distance + 1), Float04), FMul(battery_score, Float04)),
             FMul(efficiency_score, Float02))

\* a > b on doubles
ScoreGreater(a, b) == FGreater(a, b)

\* A sort that puts an entry before the entries of equal score
RECURSIVE InsertByScore_unstable(_, _)
InsertByScore_unstable(sorted, e) ==
    IF sorted = <<>> THEN <<e>>
    ELSE IF ~ScoreGreater(Head(sorted).score, e.score) THEN <<e>> \o sorted
    ELSE <<Head(sorted)>> \o InsertByScore_unstable(Tail(sorted), e)

\* robot_scores.sort(key=score, reverse=True): a stable sort, so an entry goes
\* behind the entries of equal score inserted before it
RECURSIVE InsertByScore(_, _)
InsertByScore(sorted, e) ==
    IF sorted = <<>> THEN <<e>>
    ELSE IF ScoreGreater(e.score, Head(sorted).score) THEN <<e>> \o sorted
    ELSE <<Head(sorted)>> \o InsertByScore(Tail(sorted), e)

RECURSIVE SortByScore(_, _)
SortByScore(entries, k) ==
    IF k = 0 THEN <<>>
    ELSE InsertByScore(SortByScore(entries, k - 1), entries[k])

\* Returns the index in `candidates` of the chosen robot, 0 for None
_find_best_robot(candidates, loc) ==
    LET available == AvailableRobots(candidates)
        robot_scores == [k \in 1..Len(available) |->
                            [score |-> RobotScore(candidates[available[k]], loc),
                             robot |-> available[k]]]
        sorted == SortByScore(robot_scores, Len(robot_scores))
    IN  IF available = <<>> THEN 0 ELSE sorted[1].robot

----------------------------------------------------------------------------
(* OptimizationService._generate_optimized_route *)

\* The last element at minimal distance
NearestIndex_last(seq, pos) ==
    CHOOSE i \in 1..Len(seq) :
        /\ \A j \in 1..Len(seq) : Manhattan(seq[i], pos) <= Manhattan(seq[j], pos)
        /\ \A j \in (i + 1)..Len(seq) : Manhattan(seq[j], pos) > Manhattan(seq[i], pos)

\* The elements in list order, whatever their distance
NearestIndex_head(seq, pos) == 1

\* min(seq, key=dist to pos): the index of the first element at minimal distance
NearestIndex(seq, pos) ==
    CHOOSE i \in 1..Len(seq) :
        /\ \A j \in 1..Len(seq) : Manhattan(seq[i], pos) <= Manhattan(seq[j], pos)
        /\ \A j \in 1..(i - 1) : Manhattan(seq[j], pos) > Manhattan(seq[i], pos)

\* Every element equal to v goes
RemoveFirst_all(seq, v) == SelectSeq(seq, LAMBDA u : u # v)

\* list.remove(x) where x is the element at index i: the first equal element goes
RemoveFirst(seq, v) ==
    LET i == CHOOSE k \in 1..Len(seq) : seq[k] = v /\ \A j \in 1..(k - 1) : seq[j] # v
    IN  SubSeq(seq, 1, i - 1) \o SubSeq(seq, i + 1, Len(seq))

LocPos(loc) == <<loc.x, loc.y>>

\* The `while unvisited` loop
RECURSIVE VisitLoop(_, _, _, _)
VisitLoop(route, current_pos, unvisited, wg) ==
    IF unvisited = <<>> THEN [route |-> route, current_pos |-> current_pos]
    ELSE
        LET nearest == unvisited[NearestIndex([k \in 1..Len(unvisited) |-> LocPos(unvisited[k])],
                                              current_pos)]
            path == _find_path(current_pos, LocPos(nearest), wg)
            pickup == [x |-> nearest.x, y |-> nearest.y, action |-> "pickup",
                       item |-> nearest.item, quantity |-> nearest.quantity]
        IN  VisitLoop(route \o path \o <<pickup>>, LocPos(nearest),
                      RemoveFirst(unvisited, nearest), wg)

\* robot_pos is <<robot.x, robot.y>>; item_locations are records [x, y, item,
\* quantity].  min() over no exits raises, and the handler returns []
_generate_optimized_route(robot_pos, item_locations, wg) ==
    LET start == [x |-> robot_pos[1], y |-> robot_pos[2], action |-> "start", item |-> "None"]
        visited == VisitLoop(<<start>>, robot_pos, item_locations, wg)
    IN  IF wg.exits = <<>> THEN <<>>
        ELSE
            LET nearest_exit == wg.exits[NearestIndex(wg.exits, visited.current_pos)]
                path_to_exit == _find_path(visited.current_pos, nearest_exit, wg)
            IN  visited.route \o path_to_exit \o
                <<[x |-> nearest_exit[1], y |-> nearest_exit[2],
                   action |-> "deliver", item |-> "None"]>>

----------------------------------------------------------------------------
(* OptimizationService._calculate_route_metrics *)

\* The metrics with the score left as 100 - 2 * total_distance
_calculate_route_metrics_unclamped(route) ==
    LET total_distance == Len(route)
    IN  [total_distance     |-> total_distance,
         estimated_time     |-> total_distance * 2,
         energy_consumption |-> total_distance * 5,
         optimization_score |-> 100 - (total_distance * 2)]

\* energy_consumption is in tenths of a percent (0.5 per step is 5 tenths)
_calculate_route_metrics(route) ==
    LET total_distance == Len(route)
    IN  [total_distance     |-> total_distance,
         estimated_time     |-> total_distance * 2,
         energy_consumption |-> total_distance * 5,
         optimization_score |-> Max(0, 100 - (total_distance * 2))]

----------------------------------------------------------------------------
(* OptimizationService.optimize_order_fulfillment *)

\* The inner `for inventory_item in warehouse_grid.inventory ... break`: the
\* first inventory entry of that name, 0 when there is none
InventoryIndex(inventory, item_name) ==
    IF \E i \in 1..Len(inventory) : inventory[i].name = item_name
    THEN CHOOSE i \in 1..Len(inventory) :
            /\ inventory[i].name = item_name
            /\ \A j \in 1..(i - 1) : inventory[j].name # item_name
    ELSE 0

\* "Find items in the order": one location per item that is in the inventory
RECURSIVE ItemLocations(_, _)
ItemLocations(items, inventory) ==
    IF items = <<>> THEN <<>>
    ELSE LET i == InventoryIndex(inventory, Head(items).product)
         IN  (IF i = 0 THEN <<>>
              ELSE <<[x |-> inventory[i].location_x, y |-> inventory[i].location_y,
                      item |-> inventory[i].name, quantity |-> Head(items).quantity]>>)
             \o ItemLocations(Tail(items), inventory)

\* The empty dict {}
EmptyResult == [empty |-> TRUE]

\* The result dict, or {}: no item found, or no robot
optimize_order_fulfillment(order, wg, fleet) ==
    LET item_locations == ItemLocations(order.items, wg.inventory)
        Planned(best_robot) ==
            LET route == _generate_optimized_route(
                             <<fleet[best_robot].x, fleet[best_robot].y>>,
                             item_locations, wg)
                route_metrics == _calculate_route_metrics(route)
            IN  IF best_robot = 0 THEN EmptyResult
                ELSE [empty              |-> FALSE,
                      route              |-> route,
                      robot_id           |-> fleet[best_robot].id,
                      estimated_time     |-> route_metrics.estimated_time,
                      total_distance     |-> route_metrics.total_distance,
                      energy_consumption |-> route_metrics.energy_consumption,
                      optimization_score |-> route_metrics.optimization_score]
    IN  IF item_locations = <<>> THEN EmptyResult
        ELSE \* best_robot is computed once
             CHOOSE result \in {Planned(best_robot) :
                                   best_robot \in {_find_best_robot(fleet, item_locations[1])}} :
                 TRUE

----------------------------------------------------------------------------
(* Python values held by Robot.route: a list of steps or the result dict *)

PyList(steps) == [type |-> "list", value |-> steps]

PyDict(d) == [type |-> "dict", value |-> d]

\* The keys of the result dict of optimize_order_fulfillment
ResultKeys == {"route", "robot_id", "estimated_time", "total_distance",
               "energy_consumption", "optimization_score"}

\* len(v)
PyLen(v) ==
    IF v.type = "list" THEN Len(v.value)
    ELSE IF v.value.empty THEN 0 ELSE Cardinality(ResultKeys)

\* bool(v)
PyTruthy(v) == PyLen(v) > 0

\* v[i] for an integer i >= 0 can be evaluated: a list index in range; an
\* integer is never a key of the result dict (KeyError)
PyHasItem(v, i) == v.type = "list" /\ i < Len(v.value)

----------------------------------------------------------------------------
(* main.py: the fleet, the orders and the request handlers *)

\* initialize_warehouse: the four robots
InitialRobots ==
    LET Robot(id, x, y, battery) ==
            [id |-> id, x |-> x, y |-> y, status |-> "idle", battery |-> battery,
             current_order |-> 0, route |-> PyList(<<>>), current_position |-> 0,
             total_distance_traveled |-> 0, orders_completed |-> 0]
    IN  <<Robot(1, 5, 5, 1000), Robot(2, 15, 5, 950),
          Robot(3, 25, 5, 880), Robot(4, 35, 5, 920)>>

\* max(available_robots, key=battery): the first of the highest battery
MaxBatteryIndex(fleet, available) ==
    CHOOSE k \in 1..Len(available) :
        /\ \A j \in 1..Len(available) : fleet[available[k]].battery >= fleet[available[j]].battery
        /\ \A j \in 1..(k - 1) : fleet[available[j]].battery < fleet[available[k]].battery

\* The robot of the highest battery above the threshold, idle or not
assign_robot_to_order_any(fleet, order_id, route) ==
    LET charged == SelectSeq([i \in 1..Len(fleet) |-> i],
                             LAMBDA i : fleet[i].battery > BatteryThreshold)
        best_robot == charged[MaxBatteryIndex(fleet, charged)]
    IN  IF charged = <<>> THEN [robots |-> fleet, robot |-> 0]
        ELSE [robots |-> [fleet EXCEPT ![best_robot].status = "busy",
                                       ![best_robot].current_order = order_id,
                                       ![best_robot].route = route],
              robot |-> best_robot]

\* The best available robot made busy without the order being noted on it
assign_robot_to_order_unnoted(fleet, order_id, route) ==
    LET available_robots == AvailableRobots(fleet)
        best_robot == available_robots[MaxBatteryIndex(fleet, available_robots)]
    IN  IF available_robots = <<>> THEN [robots |-> fleet, robot |-> 0]
        ELSE [robots |-> [fleet EXCEPT ![best_robot].status = "busy",
                                       ![best_robot].route = route],
              robot |-> best_robot]

\* assign_robot_to_order: [robots |-> the fleet afterwards, robot |-> the index
\* of the robot returned, 0 for None]
assign_robot_to_order(fleet, order_id, route) ==
    LET available_robots == AvailableRobots(fleet)
        best_robot == available_robots[MaxBatteryIndex(fleet, available_robots)]
    IN  IF available_robots = <<>> THEN [robots |-> fleet, robot |-> 0]
        ELSE [robots |-> [fleet EXCEPT ![best_robot].status = "busy",
                                       ![best_robot].current_order = order_id,
                                       ![best_robot].route = route],
              robot |-> best_robot]

\* Order(...) as create_order and generate_random_order build it
NewOrder(id, items) ==
    [id |-> id, items |-> items, status |-> "pending", assigned_robot |-> 0]

\* The orders the model admits
MaxOrders == 2

Item(product, quantity) == [product |-> product, quantity |-> quantity]

\* The item lists create_order is called with: no item, a product that is not
\* in the inventory, one product, two products
RequestedItems ==
    { <<>>,
      <<Item("Phone", 1)>>,
      <<Item("Camera", 1)>>,
      <<Item("Laptop", 2), Item("Camera", 1)>> }

\* generate_random_order: `products`
RandomProducts == <<"Laptop", "Phone", "Tablet", "Headphones", "Camera", "Speaker">>

\* generate_random_order: random.randint(1, 5), its two ends
RandomQuantities == {1, 5}

\* create_order without the test of the result: a robot is claimed for every order
create_order_unguarded(wg, items) ==
    LET id == Len(current_orders) + 1
        order == NewOrder(id, items)
    IN  /\ \E optimized_route \in {optimize_order_fulfillment(order, wg, robots)} :
           \E assigned \in {assign_robot_to_order(robots, id, PyDict(optimized_route))} :
              /\ robots' = assigned.robots
              /\ current_orders' =
                    Append(current_orders,
                           IF assigned.robot # 0
                           THEN [order EXCEPT !.status = "processing",
                                              !.assigned_robot = robots[assigned.robot].id]
                           ELSE order)
              /\ last_dispatch' = [valid |-> TRUE, fresh |-> TRUE, order_id |-> id,
                                   optimized_route |-> optimized_route,
                                   assigned |-> assigned.robot]
        /\ UNCHANGED <<simulation, hin, hout>>

\* The handlers run on one event loop, and neither create_order nor the calls
\* it awaits (optimize_order_fulfillment, assign_robot_to_order) ever suspend:
\* a request runs from its first line to its return as one step.
create_order(wg, items) ==
    LET id == Len(current_orders) + 1
        order == NewOrder(id, items)
    IN  /\ \E optimized_route \in {optimize_order_fulfillment(order, wg, robots)} :
           \E assigned \in {IF optimized_route.empty
                            THEN [robots |-> robots, robot |-> 0]
                            ELSE assign_robot_to_order(robots, id, PyDict(optimized_route))} :
              /\ robots' = assigned.robots
              /\ current_orders' =
                    Append(current_orders,
                           IF assigned.robot # 0
                           THEN [order EXCEPT !.status = "processing",
                                              !.assigned_robot = robots[assigned.robot].id]
                           ELSE order)
              /\ last_dispatch' = [valid |-> TRUE, fresh |-> TRUE, order_id |-> id,
                                   optimized_route |-> optimized_route,
                                   assigned |-> assigned.robot]
        /\ UNCHANGED <<simulation, hin, hout>>

\* POST /api/orders/create on the warehouse of main.py
CreateOrder ==
    /\ Len(current_orders) < MaxOrders
    /\ \E items \in RequestedItems : create_order(warehouse_grid, items)

\* start_simulation: run_simulation is scheduled as a background task
StartSimulation ==
    /\ ~simulation
    /\ simulation' = TRUE
    /\ UNCHANGED <<robots, current_orders, last_dispatch, hin, hout>>

\* update_robots with a completed route adding 5 to the battery
RECURSIVE UpdateRobotsFrom_gain(_, _)
UpdateRobotsFrom_gain(fleet, i) ==
    IF i > Len(fleet) THEN [robots |-> fleet, raised |-> FALSE]
    ELSE
        LET robot == fleet[i]
        IN  IF robot.status = "busy" /\ PyTruthy(robot.route)
            THEN IF robot.current_position < PyLen(robot.route) - 1
                 THEN LET cursor == robot.current_position + 1
                          moved == [fleet EXCEPT ![i].current_position = cursor]
                      IN  IF ~PyHasItem(robot.route, cursor)
                          THEN [robots |-> moved, raised |-> TRUE]
                          ELSE LET next_pos == robot.route.value[cursor + 1]
                               IN  UpdateRobotsFrom_gain(
                                     [moved EXCEPT ![i].x = next_pos.x,
                                                   ![i].y = next_pos.y,
                                                   ![i].battery = Max(0, robot.battery - 1)],
                                     i + 1)
                 ELSE \* "Route completed"
                      UpdateRobotsFrom_gain(
                        [fleet EXCEPT ![i].status = "idle",
                                      ![i].current_order = 0,
                                      ![i].route = PyList(<<>>),
                                      ![i].current_position = 0,
                                      ![i].battery = robot.battery + 50],
                        i + 1)
            ELSE UpdateRobotsFrom_gain(fleet, i + 1)

\* update_robots from robot i on: [robots |-> the fleet afterwards, raised |->
\* whether robot.route[robot.current_position] raised and ended the loop]
RECURSIVE UpdateRobotsFrom(_, _)
UpdateRobotsFrom(fleet, i) ==
    IF i > Len(fleet) THEN [robots |-> fleet, raised |-> FALSE]
    ELSE
        LET robot == fleet[i]
        IN  IF robot.status = "busy" /\ PyTruthy(robot.route)
            THEN IF robot.current_position < PyLen(robot.route) - 1
                 THEN LET cursor == robot.current_position + 1
                          moved == [fleet EXCEPT ![i].current_position = cursor]
                      IN  IF ~PyHasItem(robot.route, cursor)
                          THEN [robots |-> moved, raised |-> TRUE]
                          ELSE LET next_pos == robot.route.value[cursor + 1]
                               IN  UpdateRobotsFrom(
                                     [moved EXCEPT ![i].x = next_pos.x,
                                                   ![i].y = next_pos.y,
                                                   ![i].battery = Max(0, robot.battery - 1)],
                                     i + 1)
                 ELSE \* "Route completed"
                      UpdateRobotsFrom(
                        [fleet EXCEPT ![i].status = "idle",
                                      ![i].current_order = 0,
                                      ![i].route = PyList(<<>>),
                                      ![i].current_position = 0,
                                      ![i].battery = Max(0, robot.battery - 50)],
                        i + 1)
            ELSE UpdateRobotsFrom(fleet, i + 1)

\* update_robots with a loop that leaves out the first robot
update_robots_after_first(fleet) == UpdateRobotsFrom(fleet, 2)

update_robots(fleet) == UpdateRobotsFrom(fleet, 1)

\* An order numbered by the count of the pending orders
generate_random_order_by_pending(orders, product, quantity) ==
    Append(orders,
           NewOrder(Len(SelectSeq(orders, LAMBDA o : o.status = "pending")) + 1,
                    <<Item(product, quantity)>>))

\* generate_random_order: a pending order of one random item is appended
generate_random_order(orders, product, quantity) ==
    Append(orders, NewOrder(Len(orders) + 1, <<Item(product, quantity)>>))

\* One iteration of run_simulation up to its first suspension: with 30% chance
\* generate_random_order, then update_robots (update_analytics and the
\* broadcast change nothing of the fleet or the orders)
SimulationTick ==
    /\ simulation
    /\ \/ UNCHANGED current_orders
       \/ /\ Len(current_orders) < MaxOrders
          /\ \E product \in Range(RandomProducts), quantity \in RandomQuantities :
                current_orders' = generate_random_order(current_orders, product, quantity)
    /\ robots' = update_robots(robots).robots
    /\ last_dispatch' = IF last_dispatch.valid
                        THEN [last_dispatch EXCEPT !.fresh = FALSE]
                        ELSE last_dispatch
    /\ UNCHANGED <<simulation, hin, hout>>

Init ==
    /\ robots = InitialRobots
    /\ current_orders = <<>>
    /\ simulation = FALSE
    /\ last_dispatch = [valid |-> FALSE]
    /\ hin = [unused |-> TRUE]
    /\ hout = [done |-> FALSE]

Next ==
    \/ CreateOrder
    \/ StartSimulation
    \/ SimulationTick

Spec == Init /\ [][Next]_vars

----------------------------------------------------------------------------
(* The pure functions of OptimizationService, applied to small inputs.  The  *)
(* fleet and the orders stay empty in these specifications.                  *)

NoSystem ==
    /\ robots = <<>>
    /\ current_orders = <<>>
    /\ simulation = FALSE
    /\ last_dispatch = [valid |-> FALSE]

\* The harness grids are GridSize x GridSize
GridSize == 3

\* The most shelf cells a path-finding grid has
MaxShelves == 2

GridCells == {<<x, y>> : x \in 0..(GridSize - 1), y \in 0..(GridSize - 1)}

\* The grid whose shelf cells are `shelves`, every other cell walkable
GridOf(shelves, exits) ==
    [rows |-> GridSize, cols |-> GridSize,
     grid |-> [y \in 0..(GridSize - 1) |->
                 [x \in 0..(GridSize - 1) |->
                     IF <<x, y>> \in shelves THEN SHELF ELSE WALKABLE]],
     exits |-> exits]

(* _find_path on every grid of at most MaxShelves shelf cells *)

PathGrids ==
    {GridOf(sh, <<>>) : sh \in {c \in SUBSET GridCells : Cardinality(c) <= MaxShelves}}

PathInit ==
    /\ NoSystem
    /\ hin \in {[wg |-> w] : w \in PathGrids}
    /\ hout = [done |-> FALSE]

FindPathCall ==
    /\ ~hout.done
    /\ \E start \in GridCells, goal \in GridCells :
         hout' = [done |-> TRUE, start |-> start, goal |-> goal,
                  path |-> _find_path(start, goal, hin.wg)]
    /\ UNCHANGED <<robots, current_orders, simulation, last_dispatch, hin>>

PathNext == FindPathCall

PathSpec == PathInit /\ [][PathNext]_vars

(* _find_best_robot on every list of a few candidate robots *)

MaxCandidates == 2

CandidateRobot(x, st, b, h) ==
    [id |-> 0, x |-> x, y |-> 0, status |-> st, battery |-> b,
     current_order |-> 0, route |-> PyList(<<>>), current_position |-> 0,
     total_distance_traveled |-> h[2], orders_completed |-> h[1]]

\* Candidates stand on the row of the target, at distance 0, 1 or 2 from it.
\* Idle robots without history of battery 20, 21, 25, 71, 75 and 90 percent; a
\* busy robot on the target; idle robots with one order over distance 2
Candidates ==
    {CandidateRobot(x, "idle", b, <<0, 0>>) :
        x \in 0..2, b \in {200, 210, 250, 710, 750, 900}}
    \cup {CandidateRobot(2, "busy", 900, <<0, 0>>)}
    \cup {CandidateRobot(x, "idle", b, <<1, 2>>) : x \in {1, 2}, b \in {250, 900}}

CandidateLists ==
    UNION {[1..n -> Candidates] : n \in 0..MaxCandidates}

SelectInit ==
    /\ NoSystem
    /\ hin \in {[candidates |-> c, target |-> [x |-> 2, y |-> 0]] : c \in CandidateLists}
    /\ hout = [done |-> FALSE]

FindBestRobotCall ==
    /\ ~hout.done
    /\ hout' = [done |-> TRUE, robot |-> _find_best_robot(hin.candidates, hin.target)]
    /\ UNCHANGED <<robots, current_orders, simulation, last_dispatch, hin>>

SelectNext == FindBestRobotCall

SelectSpec == SelectInit /\ [][SelectNext]_vars

(* _generate_optimized_route on three grids, every robot position and every *)
(* list of a few targets                                                     *)

MaxTargets == 2

Last == GridSize - 1

\* All walkable; a wall down column 1 that leaves the bottom row open; all shelf
RouteShelves ==
    { {},
      {<<1, y>> : y \in 0..(Last - 1)},
      GridCells }

\* No exit, or the two corners of the last column in either order
RouteExits ==
    { <<>>,
      << <<Last, 0>> >>,
      << <<Last, Last>> >>,
      << <<Last, 0>>, <<Last, Last>> >>,
      << <<Last, Last>>, <<Last, 0>> >> }

TargetPool ==
    { [x |-> 0, y |-> 0, item |-> "Laptop", quantity |-> 1],
      [x |-> 0, y |-> 0, item |-> "Laptop", quantity |-> 2],
      [x |-> 1, y |-> 1, item |-> "Tablet", quantity |-> 1],
      [x |-> 0, y |-> Last, item |-> "Camera", quantity |-> 3] }

TargetLists == UNION {[1..n -> TargetPool] : n \in 0..MaxTargets}

RouteInit ==
    /\ NoSystem
    /\ hin \in {[wg |-> GridOf(sh, ex), robot_pos |-> p, targets |-> t] :
                    sh \in RouteShelves, ex \in RouteExits, p \in GridCells, t \in TargetLists}
    /\ hout = [done |-> FALSE]

GenerateRouteCall ==
    /\ ~hout.done
    /\ hout' = [done |-> TRUE,
                route |-> _generate_optimized_route(hin.robot_pos, hin.targets, hin.wg)]
    /\ UNCHANGED <<robots, current_orders, simulation, last_dispatch, hin>>

RouteNext == GenerateRouteCall

RouteSpec == RouteInit /\ [][RouteNext]_vars

----------------------------------------------------------------------------
(* Properties of _find_path (PathSpec) *)

\* Breadth-first search over the walkable cells: the number of moves from the
\* frontier to the goal plus d, -1 when the goal cannot be reached
RECURSIVE BFSDist(_, _, _, _, _)
BFSDist(seen, frontier, goal, wg, d) ==
    IF goal \in frontier THEN d
    ELSE IF frontier = {} THEN -1
    ELSE LET next == {n \in {<<c[1] + Directions[k][1], c[2] + Directions[k][2]>> :
                                c \in frontier, k \in DOMAIN Directions} :
                        is_valid_position(wg, n[1], n[2]) /\ n \notin seen}
         IN  BFSDist(seen \cup next, next, goal, wg, d + 1)

ShortestDistance(start, goal, wg) == BFSDist({start}, {start}, goal, wg, 0)

\* C9: whenever the goal can be reached from the start through walkable cells,
\* the number of steps _find_path returns is the breadth-first shortest-path
\* distance from start to goal.
C9_AStarOptimal ==
    hout.done =>
        LET d == ShortestDistance(hout.start, hout.goal, hin.wg)
        IN  d >= 0 => Len(hout.path) = d

\* A search that had to go around shelves: the shortest path is longer than
\* the Manhattan distance
C9_Witness ==
    /\ hout.done
    /\ ShortestDistance(hout.start, hout.goal, hin.wg) > Manhattan(hout.start, hout.goal)
    /\ Len(hout.path) = ShortestDistance(hout.start, hout.goal, hin.wg)

\* C10: when the goal differs from the start and cannot be reached from it,
\* _find_path returns exactly one step, a move step at the goal.
C10_UnreachableFallback ==
    (/\ hout.done
     /\ hout.start # hout.goal
     /\ ShortestDistance(hout.start, hout.goal, hin.wg) = -1)
    => hout.path = <<[x |-> hout.goal[1], y |-> hout.goal[2], action |-> "move"]>>

\* A walkable goal that shelves close off from a walkable start
C10_Witness ==
    /\ hout.done
    /\ hout.start # hout.goal
    /\ is_valid_position(hin.wg, hout.goal[1], hout.goal[2])
    /\ is_valid_position(hin.wg, hout.start[1], hout.start[2])
    /\ ShortestDistance(hout.start, hout.goal, hin.wg) = -1
    /\ Len(hout.path) = 1

----------------------------------------------------------------------------
(* Properties of _find_best_robot (SelectSpec) *)

Eligible(r) == r.status = "idle" /\ r.battery > 200

\* C2: _find_best_robot never returns a robot that is not idle or whose
\* battery is <= 20, and it returns None exactly when no candidate is idle
\* with battery > 20.
C2_SelectorExclusion ==
    hout.done =>
        /\ hout.robot # 0 =>
              /\ hout.robot \in 1..Len(hin.candidates)
              /\ hin.candidates[hout.robot].status = "idle"
              /\ hin.candidates[hout.robot].battery > 200
        /\ hout.robot = 0 <=>
              ~\E i \in 1..Len(hin.candidates) : Eligible(hin.candidates[i])

\* A robot is returned although an idle robot of battery exactly 20 stands on
\* the target, first in the list
C2_Witness ==
    /\ hout.done
    /\ Len(hin.candidates) >= 2
    /\ hin.candidates[1].status = "idle"
    /\ hin.candidates[1].battery = 200
    /\ hin.candidates[1].x = hin.target.x
    /\ hout.robot > 1

\* The score as a real number,
\*   0.4 / (distance + 1) + 0.4 * battery / 100 + 0.2 * completed / max(tdt, 1),
\* times 2500 * C3_Scale, for a battery in tenths of a percent
C3_Distance(r, target) == Abs(r.x - target.x) + Abs(r.y - target.y)

C3_Scale(r, target) == (C3_Distance(r, target) + 1) * Max(r.total_distance_traveled, 1)

C3_ScoreTimesScale(r, target) ==
    1000 * Max(r.total_distance_traveled, 1)
    + r.battery * C3_Scale(r, target)
    + 500 * r.orders_completed * (C3_Distance(r, target) + 1)

\* score(a) >= score(b), score(a) = score(b)
C3_ScoreAtLeast(a, b, target) ==
    C3_ScoreTimesScale(a, target) * C3_Scale(b, target)
        >= C3_ScoreTimesScale(b, target) * C3_Scale(a, target)

C3_ScoreEqual(a, b, target) ==
    C3_ScoreAtLeast(a, b, target) /\ C3_ScoreAtLeast(b, a, target)

\* The robots of the scenario: A at distance 2 with battery 90, B at distance 1
\* with battery 25
C3_IsA(r, target) == C3_Distance(r, target) = 2 /\ r.battery = 900 /\ Eligible(r)

C3_IsB(r, target) == C3_Distance(r, target) = 1 /\ r.battery = 250 /\ Eligible(r)

\* With the list [A, B] or [B, A] of robots of the same history, A is returned
C3_Scenario ==
    LET c == hin.candidates
    IN  \A a, b \in 1..Len(c) :
            (/\ Len(c) = 2
             /\ C3_IsA(c[a], hin.target)
             /\ C3_IsB(c[b], hin.target)
             /\ c[a].orders_completed = c[b].orders_completed
             /\ c[a].total_distance_traveled = c[b].total_distance_traveled)
            => hout.robot = a

\* C3 as stated: the robot returned has the maximal score among the eligible
\* robots, the score being the real number of the formula, and is the first of
\* the list with that score; of A (distance 2, battery 90) and B (distance 1,
\* battery 25), with the same history, A is returned.
C3_SelectorMaxScore ==
    (hout.done /\ hout.robot # 0) =>
        LET c == hin.candidates
            best == c[hout.robot]
        IN  /\ \A j \in 1..Len(c) :
                  Eligible(c[j]) =>
                      /\ C3_ScoreAtLeast(best, c[j], hin.target)
                      /\ C3_ScoreEqual(best, c[j], hin.target) => hout.robot <= j
            /\ C3_Scenario

\* The score as the code computes it: each quotient, product and sum a double
C3_ComputedScore(r, target) ==
    FAdd(FAdd(FMul(FDivInt(1, C3_Distance(r, target) + 1), FDivInt(2, 5)),
              FMul(FDivInt(r.battery, 1000), FDivInt(2, 5))),
         FMul(FDivInt(r.orders_completed, Max(r.total_distance_traveled, 1)),
              FDivInt(1, 5)))

\* C3, amended: the robot returned has the maximal computed score (the formula
\* evaluated in double-precision arithmetic) among the eligible robots and is
\* the first of the list with that computed score; of A (distance 2, battery
\* 90) and B (distance 1, battery 25), with the same history, A is returned.
C3_SelectorMaxComputedScore ==
    (hout.done /\ hout.robot # 0) =>
        LET c == hin.candidates
            best == C3_ComputedScore(c[hout.robot], hin.target)
        IN  /\ \A j \in 1..Len(c) :
                  Eligible(c[j]) =>
                      LET other == C3_ComputedScore(c[j], hin.target)
                      IN  /\ ~FGreater(other, best)
                          /\ other = best => hout.robot <= j
            /\ C3_Scenario

\* Two different eligible robots of equal computed score (distance 1 with
\* battery 75 before distance 0 with battery 25): the first is returned
C3_Witness ==
    /\ hout.done
    /\ Len(hin.candidates) = 2
    /\ Eligible(hin.candidates[1])
    /\ Eligible(hin.candidates[2])
    /\ hin.candidates[1] # hin.candidates[2]
    /\ C3_ComputedScore(hin.candidates[1], hin.target)
           = C3_ComputedScore(hin.candidates[2], hin.target)
    /\ hout.robot = 1

----------------------------------------------------------------------------
(* Properties of _generate_optimized_route (RouteSpec) *)

StepsOf(route, action) == {k \in 1..Len(route) : route[k].action = action}

\* The pickup steps of a route, in route order
Pickups(route) == SelectSeq(route, LAMBDA st : st.action = "pickup")

PickupMatches(st, t) ==
    st.x = t.x /\ st.y = t.y /\ st.item = t.item /\ st.quantity = t.quantity

\* C6: with at least one exit and N >= 1 targets the route has exactly N pickup
\* steps, one per target with that target's position, item and quantity, and
\* exactly one deliver step, which is the last step.
C6_RouteCompleteness ==
    (hout.done /\ hin.wg.exits # <<>> /\ Len(hin.targets) >= 1) =>
        LET route == hout.route
            N == Len(hin.targets)
        IN  /\ Cardinality(StepsOf(route, "pickup")) = N
            /\ \A t \in Range(hin.targets) :
                  Cardinality({k \in StepsOf(route, "pickup") : PickupMatches(route[k], t)})
                      = Cardinality({i \in 1..N : hin.targets[i] = t})
            /\ Cardinality(StepsOf(route, "deliver")) = 1
            /\ route[Len(route)].action = "deliver"

\* The same target twice in the list: two pickups of it
C6_Witness ==
    /\ hout.done
    /\ hin.wg.exits # <<>>
    /\ Len(hin.targets) = 2
    /\ hin.targets[1] = hin.targets[2]
    /\ Cardinality(StepsOf(hout.route, "pickup")) = 2
    /\ hout.route[Len(hout.route)].action = "deliver"

\* The first of the exits nearest to pos
C7_IsNearestExit(p, pos, exits) ==
    \E i \in 1..Len(exits) :
        /\ exits[i] = p
        /\ \A j \in 1..Len(exits) : Manhattan(p, pos) <= Manhattan(exits[j], pos)
        /\ \A j \in 1..(i - 1) : Manhattan(exits[j], pos) > Manhattan(p, pos)

\* C7: a non-empty route begins with its only start step, at the robot's
\* position, and ends with a deliver step at the exit nearest to the last
\* pickup position, the first such exit of the exits list.
C7_RouteEnds ==
    (hout.done /\ hout.route # <<>>) =>
        LET route == hout.route
            last == route[Len(route)]
            picks == Pickups(route)
        IN  /\ route[1].action = "start"
            /\ <<route[1].x, route[1].y>> = hin.robot_pos
            /\ StepsOf(route, "start") = {1}
            /\ last.action = "deliver"
            /\ picks # <<>> =>
                  C7_IsNearestExit(<<last.x, last.y>>,
                                   <<picks[Len(picks)].x, picks[Len(picks)].y>>,
                                   hin.wg.exits)

\* Two exits equally far from the last pickup: the deliver step is at the first
C7_Witness ==
    /\ hout.done
    /\ Len(hin.wg.exits) = 2
    /\ Pickups(hout.route) # <<>>
    /\ LET picks == Pickups(hout.route)
           lp == <<picks[Len(picks)].x, picks[Len(picks)].y>>
           last == hout.route[Len(hout.route)]
       IN  /\ Manhattan(hin.wg.exits[1], lp) = Manhattan(hin.wg.exits[2], lp)
           /\ <<last.x, last.y>> = hin.wg.exits[1]

C8_Orders(n) == {f \in [1..n -> 1..n] : \A i, j \in 1..n : i # j => f[i] # f[j]}

\* Visiting the targets in the order sigma is greedy: each one is nearer to the
\* position before it than every target still to visit, or as near and earlier
\* in the list
C8_Greedy(targets, sigma, robot_pos) ==
    \A k \in 1..Len(targets) :
        LET cursor == IF k = 1 THEN robot_pos ELSE LocPos(targets[sigma[k - 1]])
            here == Manhattan(LocPos(targets[sigma[k]]), cursor)
        IN  \A m \in (k + 1)..Len(targets) :
                LET there == Manhattan(LocPos(targets[sigma[m]]), cursor)
                IN  here < there \/ (here = there /\ sigma[k] < sigma[m])

----------------------------------------------------------------------------
(* Properties of the dispatch in main.py (Spec) *)

\* Robot i is claimed in this step: it gets another order or another route
C1_Claimed(i) ==
    \/ /\ robots'[i].current_order # robots[i].current_order
       /\ robots'[i].current_order # 0
    \/ /\ PyTruthy(robots'[i].route)
       /\ \/ robots'[i].route.type # robots[i].route.type
          \/ robots'[i].route # robots[i].route

\* C1: in every step of every interleaving of create_order requests and
\* simulation ticks, a robot is claimed only when it is Idle before the step and
\* Busy after it, for the order that step creates; a Busy robot is never
\* claimed by a second order.
C1_ClaimOnlyIdle ==
    [][\A i \in 1..Len(robots) :
          C1_Claimed(i) =>
              /\ robots[i].status = "idle"
              /\ robots[i].current_order = 0
              /\ robots'[i].status = "busy"
              /\ Len(current_orders') = Len(current_orders) + 1
              /\ robots'[i].current_order = Len(current_orders')
              /\ \A j \in 1..Len(robots) : j # i => ~C1_Claimed(j)]_vars

\* A second order was dispatched while the robot of the first was still busy:
\* the two orders hold two different robots
C1_Witness ==
    \E i, j \in 1..Len(robots) :
        /\ i # j
        /\ robots[i].status = "busy" /\ robots[i].current_order = 1
        /\ robots[j].status = "busy" /\ robots[j].current_order = 2
        /\ robots[i].current_position > 0

\* C4: after a successful dispatch the robot moved to Busy and recorded in
\* order.assigned_robot is the robot the selector picked (the robot_id of the
\* computed result), the robot at whose position the route starts.
C4_AssignedIsSelected ==
    (last_dispatch.valid /\ last_dispatch.assigned # 0) =>
        LET r == robots[last_dispatch.assigned]
            result == last_dispatch.optimized_route
            order == current_orders[last_dispatch.order_id]
        IN  /\ r.id = result.robot_id
            /\ order.assigned_robot = result.robot_id
            /\ (last_dispatch.fresh /\ result.route # <<>>) =>
                   (result.route[1].x = r.x /\ result.route[1].y = r.y)

\* C5: right after a successful dispatch the claimed robot is Busy, holds the
\* order's id, has route cursor 0 and holds as its route the list of steps the
\* route planner produced, from a start step to a deliver step; the order is
\* processing and names that robot.
C5_DispatchEffect ==
    (last_dispatch.valid /\ last_dispatch.fresh /\ last_dispatch.assigned # 0) =>
        LET r == robots[last_dispatch.assigned]
            result == last_dispatch.optimized_route
            order == current_orders[last_dispatch.order_id]
        IN  /\ r.status = "busy"
            /\ r.current_order = order.id
            /\ r.current_position = 0
            /\ order.status = "processing"
            /\ order.assigned_robot = r.id
            /\ r.route.type = "list"
            /\ r.route.value = result.route
            /\ r.route.value # <<>>
            /\ r.route.value[1].action = "start"
            /\ r.route.value[Len(r.route.value)].action = "deliver"

----------------------------------------------------------------------------
(* is_valid_position on every position of the warehouse and around it *)

ValidInit ==
    /\ NoSystem
    /\ hin \in {[x |-> x, y |-> y] : x \in (-1)..Cols, y \in (-1)..Rows}
    /\ hout = [done |-> FALSE]

IsValidPositionCall ==
    /\ ~hout.done
    /\ hout' = [done |-> TRUE, valid |-> is_valid_position(warehouse_grid, hin.x, hin.y)]
    /\ UNCHANGED <<robots, current_orders, simulation, last_dispatch, hin>>

ValidNext == IsValidPositionCall

ValidSpec == ValidInit /\ [][ValidNext]_vars

C11_InBounds(x, y) == 0 <= x /\ x < Cols /\ 0 <= y /\ y < Rows

\* C11: is_valid_position is false out of bounds and on shelf cells, and true
\* on every in-bounds cell that is walkable, an entrance or an exit.
C11_EntranceExitWalkable ==
    hout.done =>
        (hout.valid <=>
            /\ C11_InBounds(hin.x, hin.y)
            /\ warehouse_grid.grid[hin.y][hin.x] \in {WALKABLE, ENTRANCE, EXIT})

----------------------------------------------------------------------------
(* More properties of _generate_optimized_route (RouteSpec) *)

\* C12: with an empty list of targets the route planner returns an empty
\* route, with no steps.
C12_EmptyTargetsEmptyRoute ==
    (hout.done /\ hin.targets = <<>>) => hout.route = <<>>

----------------------------------------------------------------------------
(* create_order requests in a row, until no robot is left to dispatch, with  *)
(* the simulation running in between (DispatchSpec)                          *)

\* The create_order requests DispatchSpec admits
MaxRequests == 5

\* An unknown product and a product of the inventory
DispatchItems == {<<Item("Phone", 1)>>, <<Item("Camera", 1)>>}

DispatchRequest ==
    /\ Len(current_orders) < MaxRequests
    /\ \E items \in DispatchItems : create_order(warehouse_grid, items)

\* A simulation tick whose random draw creates no order
DispatchTick ==
    /\ SimulationTick
    /\ UNCHANGED current_orders

DispatchNext ==
    \/ DispatchRequest
    \/ StartSimulation
    \/ DispatchTick

DispatchSpec == Init /\ [][DispatchNext]_vars

\* This step is a create_order request
C13_RequestStep ==
    /\ Len(current_orders') = Len(current_orders) + 1
    /\ last_dispatch'.valid
    /\ last_dispatch'.fresh

\* No item of the new order is in the inventory, or no robot is idle with
\* more than 20% of battery
C13_Blocked ==
    LET order == current_orders'[Len(current_orders')]
    IN  \/ ItemLocations(order.items, warehouse_grid.inventory) = <<>>
        \/ \A i \in 1..Len(robots) : ~Eligible(robots[i])

\* C13: when no item of the order resolves to an inventory location, or no
\* robot is idle with battery above 20, the optimization returns the empty
\* result and create_order leaves the order pending with no assigned robot and
\* every robot's status, current order, route and cursor as they were.
C13_BlockedLeavesPending ==
    [][(C13_RequestStep /\ C13_Blocked) =>
          LET order == current_orders'[Len(current_orders')]
          IN  /\ last_dispatch'.optimized_route = EmptyResult
              /\ last_dispatch'.assigned = 0
              /\ order.status = "pending"
              /\ order.assigned_robot = 0
              /\ \A i \in 1..Len(robots) :
                    /\ robots'[i].status = robots[i].status
                    /\ robots'[i].current_order = robots[i].current_order
                    /\ robots'[i].route = robots[i].route
                    /\ robots'[i].current_position = robots[i].current_position]_vars

\* An order of a product of the inventory has just been created while all four
\* robots were busy, one of them part way through its route: it is pending
C13_Witness ==
    /\ last_dispatch.valid /\ last_dispatch.fresh
    /\ last_dispatch.optimized_route = EmptyResult
    /\ LET order == current_orders[Len(current_orders)]
       IN  /\ ItemLocations(order.items, warehouse_grid.inventory) # <<>>
           /\ order.status = "pending"
    /\ \A i \in 1..Len(robots) : robots[i].status = "busy"
    /\ \E i \in 1..Len(robots) : robots[i].current_position > 0

----------------------------------------------------------------------------
(* create_order on a warehouse whose layout has no exit (NoExitSpec) *)

\* warehouse_grid with no exit: self.exits is empty and no cell is marked 3
NoExitWarehouse ==
    LET wg == warehouse_grid
    IN  [wg EXCEPT !.exits = <<>>,
                   !.grid = [y \in 0..(Rows - 1) |->
                               [x \in 0..(Cols - 1) |->
                                   IF wg.grid[y][x] = EXIT THEN WALKABLE
                                   ELSE wg.grid[y][x]]]]

NoExitRequest ==
    /\ Len(current_orders) < MaxRequests
    /\ \E items \in DispatchItems : create_order(NoExitWarehouse, items)

NoExitNext ==
    \/ NoExitRequest
    \/ StartSimulation
    \/ DispatchTick

NoExitSpec == Init /\ [][NoExitNext]_vars

\* C14: on a grid with zero exits building the route fails: create_order
\* reports an error, returns no normal result and moves no robot to Busy.
C14_NoExitNoDispatch ==
    (last_dispatch.valid /\ last_dispatch.fresh) =>
        /\ last_dispatch.optimized_route = EmptyResult
        /\ last_dispatch.assigned = 0
        /\ current_orders[last_dispatch.order_id].status = "pending"
        /\ \A i \in 1..Len(robots) :
              robots[i].current_order # last_dispatch.order_id

----------------------------------------------------------------------------
(* _calculate_route_metrics on routes of every length up to MaxRouteLen      *)
(* (MetricsSpec)                                                             *)

\* The longest route; beyond 50 steps 100 - 2L is negative
MaxRouteLen == 60

\* The steps the routes are filled with
MetricsSteps ==
    { [x |-> 0, y |-> 0, action |-> "move"],
      [x |-> 1, y |-> 2, action |-> "move"],
      [x |-> 2, y |-> 2, action |-> "pickup", item |-> "Camera", quantity |-> 1] }

\* The route of `length` steps that starts with `first` and goes on with `rest`
MetricsRoute(length, first, rest) ==
    [i \in 1..length |-> IF i = 1 THEN first ELSE rest]

MetricsInit ==
    /\ NoSystem
    /\ hin \in {[route |-> MetricsRoute(length, first, rest)] :
                   length \in 0..MaxRouteLen, first \in MetricsSteps, rest \in MetricsSteps}
    /\ hout = [done |-> FALSE]

CalculateRouteMetricsCall ==
    /\ ~hout.done
    /\ hout' = [done |-> TRUE, metrics |-> _calculate_route_metrics(hin.route)]
    /\ UNCHANGED <<robots, current_orders, simulation, last_dispatch, hin>>

MetricsNext == CalculateRouteMetricsCall

MetricsSpec == MetricsInit /\ [][MetricsNext]_vars

\* C15: for a route of L steps the metrics are total_distance = L,
\* estimated_time = 2L, energy_consumption = L/2 (5L tenths) and
\* optimization_score = max(0, 100 - 2L); none is negative, and they are
\* those of any other route of L steps.
C15_MetricsOfLength ==
    hout.done =>
        LET L == Len(hin.route)
            m == hout.metrics
        IN  /\ m.total_distance = L
            /\ m.estimated_time = 2 * L
            /\ 2 * m.energy_consumption = 10 * L
            /\ m.optimization_score = (IF 100 - 2 * L > 0 THEN 100 - 2 * L ELSE 0)
            /\ m.total_distance >= 0 /\ m.estimated_time >= 0
            /\ m.energy_consumption >= 0 /\ m.optimization_score >= 0
            /\ \A first \in MetricsSteps, rest \in MetricsSteps :
                  _calculate_route_metrics(MetricsRoute(L, first, rest)) = m

\* The metrics of a route of more than 50 steps, of score 0
C15_Witness ==
    /\ hout.done
    /\ Len(hin.route) > 50
    /\ hout.metrics.optimization_score = 0
    /\ hout.metrics.estimated_time > 100

----------------------------------------------------------------------------
(* optimize_order_fulfillment on a 5x5 grid without shelves, with one exit   *)
(* at (4,4), one robot and one item (ScenarioSpec)                           *)

ScenarioCells == {<<x, y>> : x \in 0..4, y \in 0..4}

\* The 5x5 grid with the item at `target`; the exit cell is of kind exit_kind
\* (0 when only self.exits names it, 3 when it is marked as
\* create_shelf_layout marks exits)
ScenarioGrid(exit_kind, target) ==
    [rows |-> 5, cols |-> 5,
     grid |-> [y \in 0..4 |->
                 [x \in 0..4 |-> IF <<x, y>> = <<4, 4>> THEN exit_kind ELSE WALKABLE]],
     exits |-> << <<4, 4>> >>,
     inventory |-> <<[name |-> "Camera", location_x |-> target[1],
                      location_y |-> target[2]]>>]

\* One idle robot of full battery at `pos`
ScenarioFleet(pos) ==
    <<[id |-> 1, x |-> pos[1], y |-> pos[2], status |-> "idle", battery |-> 1000,
       current_order |-> 0, route |-> PyList(<<>>), current_position |-> 0,
       total_distance_traveled |-> 0, orders_completed |-> 0]>>

ScenarioInit ==
    /\ NoSystem
    /\ hin \in {[wg |-> ScenarioGrid(exit_kind, target), fleet |-> ScenarioFleet(pos),
                 exit_kind |-> exit_kind, target |-> target, pos |-> pos] :
                   exit_kind \in {WALKABLE, EXIT}, target \in ScenarioCells,
                   pos \in ScenarioCells}
    /\ hout = [done |-> FALSE]

OptimizeOrderCall ==
    /\ ~hout.done
    /\ hout' = [done |-> TRUE,
                result |-> optimize_order_fulfillment(
                               NewOrder(1, <<Item("Camera", 1)>>), hin.wg, hin.fleet)]
    /\ UNCHANGED <<robots, current_orders, simulation, last_dispatch, hin>>

ScenarioNext == OptimizeOrderCall

ScenarioSpec == ScenarioInit /\ [][ScenarioNext]_vars

\* The scenario: every cell walkable, the robot at (0,0), the target at (2,2)
C16_Scenario ==
    /\ hout.done
    /\ hin.exit_kind = WALKABLE
    /\ hin.pos = <<0, 0>>
    /\ hin.target = <<2, 2>>

\* steps[from..to] are move steps between neighbouring cells that lead from
\* `before` to `after`
C16_Moves(steps, from, to, before, after) ==
    /\ \A k \in from..to :
          /\ steps[k].action = "move"
          /\ Manhattan(<<steps[k].x, steps[k].y>>,
                       IF k = from THEN before
                       ELSE <<steps[k - 1].x, steps[k - 1].y>>) = 1
    /\ <<steps[to].x, steps[to].y>> = after

\* Start(0,0), 4 move steps ending at (2,2), Pickup(2,2), 4 move steps ending
\* at (4,4), Deliver(4,4)
C16_RouteShape(steps) ==
    /\ Len(steps) = 11
    /\ steps[1].action = "start" /\ <<steps[1].x, steps[1].y>> = <<0, 0>>
    /\ C16_Moves(steps, 2, 5, <<0, 0>>, <<2, 2>>)
    /\ steps[6].action = "pickup" /\ <<steps[6].x, steps[6].y>> = <<2, 2>>
    /\ C16_Moves(steps, 7, 10, <<2, 2>>, <<4, 4>>)
    /\ steps[11].action = "deliver" /\ <<steps[11].x, steps[11].y>> = <<4, 4>>

\* C16 as stated: in the scenario the route is Start(0,0), 4 move steps ending
\* at (2,2), Pickup(2,2), move steps of total distance 4 ending at (4,4),
\* Deliver(4,4), and the metrics are total_distance 9 and optimization_score 82.
C16_ScenarioAsStated ==
    C16_Scenario =>
        /\ ~hout.result.empty
        /\ C16_RouteShape(hout.result.route)
        /\ hout.result.total_distance = 9
        /\ hout.result.optimization_score = 82

\* C16 (amended): in the scenario the route is those 11 steps, and the metrics
\* count every one of them: total_distance 11 and optimization_score 78.
C16_ScenarioElevenSteps ==
    C16_Scenario =>
        /\ ~hout.result.empty
        /\ C16_RouteShape(hout.result.route)
        /\ hout.result.total_distance = 11
        /\ hout.result.optimization_score = 78

\* The scenario has been computed
C16_Witness ==
    /\ C16_Scenario
    /\ ~hout.result.empty
    /\ hout.result.robot_id = 1
    /\ Len(hout.result.route) = 11

----------------------------------------------------------------------------
(* The simulation as it runs on (LiveSpec) *)

\* run_simulation is a `while True` loop that sleeps two seconds per
\* iteration: once started, a tick that can change the state is taken.
\* Requests arrive or not.
LiveSpec == Init /\ [][Next]_vars /\ WF_vars(SimulationTick)

\* Order k is pending while the simulation runs, its items are in the
\* inventory and some robot is idle with more than 20% of battery.  With fewer
\* orders than robots create_order leaves no such order pending, so this is an
\* order generate_random_order created.
C17_Admitted(k) ==
    /\ simulation
    /\ Len(current_orders) >= k
    /\ current_orders[k].status = "pending"
    /\ ItemLocations(current_orders[k].items, warehouse_grid.inventory) # <<>>
    /\ \E i \in 1..Len(robots) : Eligible(robots[i])

C17_Dispatched(k) ==
    /\ Len(current_orders) >= k
    /\ current_orders[k].status = "processing"
    /\ current_orders[k].assigned_robot # 0

\* C17: an order created by a simulation tick whose items resolve to
\* inventory locations, while some robot is idle with battery above 20,
\* eventually becomes processing with an assigned robot.
C17_TickOrderDispatched ==
    \A k \in 1..MaxOrders : C17_Admitted(k) ~> C17_Dispatched(k)

----------------------------------------------------------------------------
(* Properties of update_robots (Spec) *)

\* This step is an iteration of run_simulation: create_order leaves
\* last_dispatch fresh, start_simulation changes `simulation`
C18_TickStep ==
    /\ simulation /\ simulation'
    /\ ~(last_dispatch'.valid /\ last_dispatch'.fresh)

\* Robot i has advanced by one step of its route and stands on that step
C18_Advanced(i) ==
    /\ robots'[i].current_position = robots[i].current_position + 1
    /\ robots'[i].status = "busy"
    /\ PyHasItem(robots[i].route, robots'[i].current_position)
    /\ LET step == robots[i].route.value[robots'[i].current_position + 1]
       IN  robots'[i].x = step.x /\ robots'[i].y = step.y

\* Robot i has completed its route
C18_Completed(i) ==
    /\ robots'[i].status = "idle"
    /\ robots'[i].current_order = 0
    /\ robots'[i].route = PyList(<<>>)
    /\ robots'[i].current_position = 0

\* C18: on each simulation tick every robot that is busy with a route
\* advances its cursor by exactly one step and then stands at the position of
\* the route step at its cursor; a robot whose cursor is at the last step
\* becomes idle instead, its order cleared, its route emptied and its cursor
\* back to 0.  This holds for every busy robot in the same tick.
C18_TickAdvancesEveryBusyRobot ==
    [][C18_TickStep =>
          \A i \in 1..Len(robots) :
              (robots[i].status = "busy" /\ PyTruthy(robots[i].route)) =>
                  IF robots[i].current_position < PyLen(robots[i].route) - 1
                  THEN C18_Advanced(i)
                  ELSE C18_Completed(i)]_vars

----------------------------------------------------------------------------
(* The battery (DispatchSpec) *)

\* C19: in every reachable state, after any sequence of dispatches and
\* simulation ticks, the battery of each robot is within [0, 100] (0 to 1000
\* tenths).
C19_BatteryInRange ==
    \A i \in 1..Len(robots) :
        /\ 0 <= robots[i].battery
        /\ robots[i].battery <= 1000

\* A robot has completed two orders and is dispatched again: its battery has
\* gone down by 10
C19_Witness ==
    \E i \in 1..Len(robots) :
        /\ robots[i].battery = InitialRobots[i].battery - 100
        /\ robots[i].status = "busy"

----------------------------------------------------------------------------
(* QLearningAgent.get_optimized_layout *)

\* frequency_data.get(category, 1); the frequencies are doubles
FrequencyOf(frequency_data, category) ==
    IF category \in DOMAIN frequency_data THEN frequency_data[category] ELSE FFromInt(1)

\* shelf['_optimization_score'] = frequency_weight / (distance + 1), a float
_optimization_score(shelf, entry_point, frequency_data) ==
    LET distance == Abs(shelf.row - entry_point.row) + Abs(shelf.col - entry_point.col)
    IN  FDivSmall(FrequencyOf(frequency_data, shelf.category), distance + 1)

\* The position of the shelf at index i (from 0) of the n sorted shelves,
\* brought into the grid
OptimizedPosition(i, n, entry_point, grid_size) ==
    LET offset == IF i < n \div 2 THEN 1 ELSE 3
        row == entry_point.row + (i \div 5) + offset
        col == entry_point.col + (i % 5) + offset
    IN  [row |-> Max(0, Min(row, grid_size - 1)),
         col |-> Max(0, Min(col, grid_size - 1))]

\* The layout returned: the shelves sorted by score, highest first, each at
\* its new position; the layout as it is when it has no shelf or no entry point
get_optimized_layout(layout, frequency_data) ==
    IF layout.shelves = <<>> \/ layout.entryPoints = <<>> THEN layout
    ELSE
        LET entry_point == layout.entryPoints[1]
            scored == [k \in 1..Len(layout.shelves) |->
                          [score |-> _optimization_score(layout.shelves[k], entry_point,
                                                         frequency_data),
                           shelf |-> layout.shelves[k]]]
            sorted == SortByScore(scored, Len(scored))
        IN  [layout EXCEPT !.shelves =
                [k \in 1..Len(sorted) |->
                    LET p == OptimizedPosition(k - 1, Len(sorted), entry_point,
                                               layout.gridSize)
                    IN  [sorted[k].shelf EXCEPT !.row = p.row, !.col = p.col]]]

(* get_optimized_layout on small layouts of shelves of two categories        *)
(* (LayoutSpec)                                                              *)

\* The most shelves of a layout
MaxLayoutShelves == 3

\* The largest grid; the smallest has gridSize 4
MaxGridSize == 6

\* The frequencies: 80 for A, 20 for B
ScenarioFrequencies == [A |-> FFromInt(80), B |-> FFromInt(20)]

\* Shelves on the entry point's corner, next to it and away from it
LayoutShelves ==
    {[id |-> id, category |-> c, row |-> p[1], col |-> p[2]] :
        id \in {1}, c \in {"A", "B"}, p \in {<<0, 0>>, <<0, 1>>, <<3, 3>>}}

LayoutEntryPoints ==
    { << [row |-> 0, col |-> 0] >>,
      << [row |-> 2, col |-> 2], [row |-> 0, col |-> 0] >> }

LayoutInit ==
    /\ NoSystem
    /\ hin \in {[shelves |-> sh, entryPoints |-> en, gridSize |-> g] :
                   sh \in UNION {[1..n -> LayoutShelves] : n \in 0..MaxLayoutShelves},
                   en \in LayoutEntryPoints,
                   g \in 4..MaxGridSize}
    /\ hout = [done |-> FALSE]

GetOptimizedLayoutCall ==
    /\ ~hout.done
    /\ hout' = [done |-> TRUE, layout |-> get_optimized_layout(hin, ScenarioFrequencies)]
    /\ UNCHANGED <<robots, current_orders, simulation, last_dispatch, hin>>

LayoutNext == GetOptimizedLayoutCall

LayoutSpec == LayoutInit /\ [][LayoutNext]_vars

\* The Manhattan distance of a shelf to the primary (first) entry point
C20_EntryDistance(shelf, layout) ==
    Abs(shelf.row - layout.entryPoints[1].row) + Abs(shelf.col - layout.entryPoints[1].col)

\* C20: with frequencies {A: 80, B: 20}, at least one entry point and a grid
\* size of at least 4, after get_optimized_layout every shelf of category A is
\* closer (Manhattan distance) to the primary entry point than every shelf of
\* category B, whatever the original positions.
C20_FrequentShelvesCloser ==
    hout.done =>
        \A i, j \in 1..Len(hout.layout.shelves) :
            (hout.layout.shelves[i].category = "A" /\ hout.layout.shelves[j].category = "B") =>
                C20_EntryDistance(hout.layout.shelves[i], hout.layout)
                    < C20_EntryDistance(hout.layout.shelves[j], hout.layout)

----------------------------------------------------------------------------
(* OptimizationService.calculate_layout_metrics_with_frequency *)

\* layout.get(key, []): a layout is a record that may lack keys
LayoutGet(layout, key) == IF key \in DOMAIN layout THEN layout[key] ELSE <<>>

\* min(abs(shelf.row - p.row) + abs(shelf.col - p.col) for p in points)
NearestDistance(shelf, points) ==
    CHOOSE d \in {Abs(shelf.row - points[k].row) + Abs(shelf.col - points[k].col) :
                     k \in 1..Len(points)} :
        \A k \in 1..Len(points) :
            d <= Abs(shelf.row - points[k].row) + Abs(shelf.col - points[k].col)

Float07 == FDivInt(7, 10)
Float03 == FDivInt(3, 10)

\* The metrics the function returns for no shelves, no entry points or no
\* packing stations (and from its except clause)
ZeroMetrics == [efficiency |-> FZero, distance_score |-> FZero, frequency_score |-> FZero]

\* The `for shelf in shelves` loop from shelf k on: the two running totals
RECURSIVE MetricsLoop(_, _, _, _, _, _)
MetricsLoop(shelves, entry_points, packing_stations, frequency_data, k, totals) ==
    IF k > Len(shelves) THEN totals
    ELSE
        LET shelf == shelves[k]
            frequency_weight == FDivSmall(FrequencyOf(frequency_data, shelf.category), 100)
            total_distance == NearestDistance(shelf, entry_points)
                                + NearestDistance(shelf, packing_stations)
            distance_score == FDivInt(100, total_distance + 1)
            frequency_score == FMul(frequency_weight, distance_score)
        IN  MetricsLoop(shelves, entry_points, packing_stations, frequency_data, k + 1,
                        [frequency |-> FAdd(totals.frequency, frequency_score),
                         distance  |-> FAdd(totals.distance, distance_score)])

\* The averages of the totals, rounded to two places
AveragedMetrics(totals, shelf_count) ==
    LET avg_frequency_score == FDivSmall(totals.frequency, shelf_count)
        avg_distance_score == FDivSmall(totals.distance, shelf_count)
        overall_efficiency == FAdd(FMul(avg_frequency_score, Float07),
                                   FMul(avg_distance_score, Float03))
    IN  [efficiency      |-> PyRound2(overall_efficiency),
         distance_score  |-> PyRound2(avg_distance_score),
         frequency_score |-> PyRound2(avg_frequency_score),
         shelf_count     |-> shelf_count]

\* The metrics with the packing stations, when there are none, taken to be the
\* entry points
calculate_layout_metrics_with_frequency_unchecked(layout, frequency_data) ==
    IF LayoutGet(layout, "shelves") = <<>> THEN ZeroMetrics
    ELSE IF LayoutGet(layout, "entryPoints") = <<>> THEN ZeroMetrics
    ELSE AveragedMetrics(
             MetricsLoop(layout.shelves, layout.entryPoints,
                         IF LayoutGet(layout, "packingStations") = <<>>
                         THEN layout.entryPoints ELSE layout.packingStations,
                         frequency_data, 1, [frequency |-> FZero, distance |-> FZero]),
             Len(layout.shelves))

calculate_layout_metrics_with_frequency(layout, frequency_data) ==
    IF LayoutGet(layout, "shelves") = <<>> THEN ZeroMetrics
    ELSE IF LayoutGet(layout, "entryPoints") = <<>>
            \/ LayoutGet(layout, "packingStations") = <<>> THEN ZeroMetrics
    ELSE AveragedMetrics(
             MetricsLoop(layout.shelves, layout.entryPoints, layout.packingStations,
                         frequency_data, 1, [frequency |-> FZero, distance |-> FZero]),
             Len(layout.shelves))

----------------------------------------------------------------------------
(* WarehouseEnvironment.calculate_reward and QLearningAgent.train *)

\* The distance to the nearest of `points`, 100 when there is none
NearestDistanceOr100(shelf, points) ==
    IF points = <<>> THEN 100 ELSE NearestDistance(shelf, points)

\* The `for shelf in self.shelves` loop of calculate_reward from shelf k on
RECURSIVE RewardLoop(_, _, _, _)
RewardLoop(layout, frequency_data, k, total_reward) ==
    IF k > Len(LayoutGet(layout, "shelves")) THEN total_reward
    ELSE
        LET shelf == layout.shelves[k]
            frequency_weight == FDivSmall(FrequencyOf(frequency_data, shelf.category), 100)
            total_dist == NearestDistanceOr100(shelf, LayoutGet(layout, "entryPoints"))
                            + NearestDistanceOr100(shelf, LayoutGet(layout, "packingStations"))
            reward == FMul(frequency_weight, FDivInt(100, total_dist + 1))
        IN  RewardLoop(layout, frequency_data, k + 1, FAdd(total_reward, reward))

\* calculate_reward: `action` is not used
calculate_reward(layout, frequency_data, action) ==
    IF LayoutGet(layout, "shelves") = <<>> THEN FZero
    ELSE FDivSmall(RewardLoop(layout, frequency_data, 1, FZero), Len(layout.shelves))

\* _choose_action: what random.random() and random.choice can give
AgentActions == {"move_shelf", "swap_shelves", "optimize_path"}

\* learning_rate, and discount_factor, which is also 1 - learning_rate
Float01 == FDivInt(1, 10)
Float09 == FDivInt(9, 10)

\* max(values) of a q-table row that is not empty
QMax(row) ==
    CHOOSE v \in {row[a] : a \in DOMAIN row} :
        \A a \in DOMAIN row : ~FGreater(row[a], v)

\* The Q-learning update of the row of the one state the training sees (the
\* layout does not change while training)
QUpdate(row, action, reward) ==
    LET started == IF action \in DOMAIN row THEN row ELSE row @@ (action :> FZero)
        old_value == started[action]
        next_max == QMax(started)
        new_value == FAdd(FMul(Float09, old_value),
                          FMul(Float01, FAdd(reward, FMul(Float09, next_max))))
    IN  [started EXCEPT ![action] = new_value]

\* An entry whose reward is that of the layout only for the default action
EpisodeResult_by_action(layout, frequency_data, action, episode, episodes) ==
    [episode  |-> episode,
     reward   |-> IF action = "optimize_path"
                  THEN calculate_reward(layout, frequency_data, action)
                  ELSE FZero,
     progress |-> FMul(FDivInt(episode, episodes), FFromInt(100))]

\* The entry train appends to `results` in episode number `episode` (from 1);
\* `action` is what _choose_action returns in that episode
EpisodeResult(layout, frequency_data, action, episode, episodes) ==
    [episode  |-> episode,
     reward   |-> calculate_reward(layout, frequency_data, action),
     progress |-> FMul(FDivInt(episode, episodes), FFromInt(100))]

\* The q-table row after the episodes first..last, one after the other, from
\* the row `row`
RECURSIVE TrainedRow(_, _, _, _, _, _)
TrainedRow(layout, frequency_data, actions, row, first, last) ==
    IF first > last THEN row
    ELSE IF first = last
    THEN QUpdate(row, actions[first], calculate_reward(layout, frequency_data, actions[first]))
    ELSE \* the first half of the episodes, then the second half from its row
         CHOOSE trained \in
             {TrainedRow(layout, frequency_data, actions, half,
                         ((first + last) \div 2) + 1, last) :
                 half \in {TrainedRow(layout, frequency_data, actions, row,
                                      first, (first + last) \div 2)}} : TRUE

\* train(episodes=Len(actions)): [results |-> the list returned, q_table |->
\* the row of the state afterwards]
train(layout, frequency_data, actions) ==
    [results |-> [episode \in 1..Len(actions) |->
                     EpisodeResult(layout, frequency_data, actions[episode], episode,
                                   Len(actions))],
     q_table |-> TrainedRow(layout, frequency_data, actions, <<>>, 1, Len(actions))]

----------------------------------------------------------------------------
(* OrderDataService.get_category_frequencies and                            *)
(* OptimizationService.optimize_layout_with_rl                              *)

\* sum(cat["frequency"] for cat in order_frequency.values())
RECURSIVE SumFrequencies(_, _)
SumFrequencies(order_frequency, categories) ==
    IF categories = {} THEN 0
    ELSE LET c == CHOOSE c \in categories : TRUE
         IN  order_frequency[c] + SumFrequencies(order_frequency, categories \ {c})

\* get_category_frequencies: (frequency / total_frequency) * 100 per category
get_category_frequencies(order_frequency) ==
    LET total_frequency == SumFrequencies(order_frequency, DOMAIN order_frequency)
    IN  [c \in DOMAIN order_frequency |->
            FMul(FDivInt(order_frequency[c], total_frequency), FFromInt(100))]

\* agent.train(episodes=50)
TrainingEpisodes == 50

\* layout_data after get_optimized_layout has run on it.  `layout.copy()` is a
\* shallow copy: the list under 'shelves' and the shelf dicts in it are those
\* of layout_data, so sorting that list and writing row and col into those
\* dicts changes layout_data as well
SharedShelves(layout_data, optimized_layout) ==
    [layout_data EXCEPT !.shelves = optimized_layout.shelves]

\* The calls in the order of the code: train, get_optimized_layout, then the
\* metrics of layout_data and of optimized_layout
LayoutResult(layout_data, optimized_layout, training_results, frequency_data) ==
    [success          |-> TRUE,
     original_layout  |-> SharedShelves(layout_data, optimized_layout),
     optimized_layout |-> optimized_layout,
     training_results |-> training_results,
     frequency_data   |-> frequency_data,
     metrics          |->
        [original  |-> calculate_layout_metrics_with_frequency(
                           SharedShelves(layout_data, optimized_layout), frequency_data),
         optimized |-> calculate_layout_metrics_with_frequency(
                           optimized_layout, frequency_data)]]

\* optimize_layout_with_rl; order_frequency is the table of the order data
\* file and actions[k] is the action the agent draws in episode k.  The
\* insights, sentences made from the two sets of metrics, are left out
optimize_layout_with_rl(layout_data, order_frequency, actions) ==
    CHOOSE result \in
        {LayoutResult(layout_data, get_optimized_layout(layout_data, frequency_data),
                      train(layout_data, frequency_data, actions).results, frequency_data) :
            frequency_data \in {get_category_frequencies(order_frequency)}} : TRUE

(* optimize_layout_with_rl on small layouts (RLSpec) *)

\* The order data: 80 orders of category A for 20 of category B
ScenarioOrderFrequency == [A |-> 80, B |-> 20]

\* Shelves on the entry point and away from it
RLShelves ==
    {[id |-> 1, category |-> c, row |-> p[1], col |-> p[2]] :
        c \in {"A", "B"}, p \in {<<0, 0>>, <<3, 3>>}}

RLEntryPoints ==
    { <<>>, << [row |-> 0, col |-> 0] >> }

RLPackingStations ==
    { <<>>, << [row |-> 1, col |-> 2] >> }

\* The most shelves of a layout of RLSpec
MaxRLShelves == 2

\* All 50 draws give the default action, or the first two do not
RLActions ==
    { [k \in 1..TrainingEpisodes |-> "optimize_path"],
      [k \in 1..TrainingEpisodes |->
          IF k = 1 THEN "move_shelf" ELSE IF k = 2 THEN "swap_shelves" ELSE "optimize_path"] }

RLInit ==
    /\ NoSystem
    /\ hin \in {[shelves |-> sh, entryPoints |-> en, packingStations |-> pk, gridSize |-> g] :
                   sh \in UNION {[1..n -> RLShelves] : n \in 0..MaxRLShelves},
                   en \in RLEntryPoints,
                   pk \in RLPackingStations,
                   g \in {4, MaxGridSize}}
    /\ hout = [done |-> FALSE]

\* layout_data is the caller's layout object as the call leaves it
OptimizeLayoutCall ==
    /\ ~hout.done
    /\ \E actions \in RLActions :
       \E result \in {optimize_layout_with_rl(hin, ScenarioOrderFrequency, actions)} :
          hout' = [done |-> TRUE, result |-> result, layout_data |-> result.original_layout]
    /\ UNCHANGED <<robots, current_orders, simulation, last_dispatch, hin>>

RLNext == OptimizeLayoutCall

RLSpec == RLInit /\ [][RLNext]_vars

\* C21: metrics.original are the metrics of the layout as it was passed in,
\* metrics.optimized those of the rearranged layout, and the shelf positions of
\* the layout passed in are not changed by the optimization.
C21_BeforeAfterMetrics ==
    hout.done =>
        /\ hout.result.metrics.original =
              calculate_layout_metrics_with_frequency(hin, hout.result.frequency_data)
        /\ hout.result.metrics.optimized =
              calculate_layout_metrics_with_frequency(hout.result.optimized_layout,
                                                      hout.result.frequency_data)
        /\ hout.layout_data.shelves = hin.shelves

----------------------------------------------------------------------------
(* calculate_layout_metrics_with_frequency on small layouts, complete or not *)
(* (LayoutMetricsSpec)                                                       *)

\* The most shelves of a layout of LayoutMetricsSpec
MaxMetricsShelves == 2

\* The layout of these shelves with the keys `keys` out of entryPoints and
\* packingStations; a key that is present holds `entries` or `stations`
PartialLayout(shelves, keys, entries, stations) ==
    [k \in {"shelves"} \cup keys |->
        IF k = "shelves" THEN shelves
        ELSE IF k = "entryPoints" THEN entries
        ELSE stations]

LayoutMetricsInit ==
    /\ NoSystem
    /\ hin \in {PartialLayout(sh, keys, en, pk) :
                   sh \in UNION {[1..n -> RLShelves] : n \in 0..MaxMetricsShelves},
                   keys \in SUBSET {"entryPoints", "packingStations"},
                   en \in RLEntryPoints,
                   pk \in RLPackingStations}
    /\ hout = [done |-> FALSE]

CalculateLayoutMetricsCall ==
    /\ ~hout.done
    /\ hout' = [done |-> TRUE,
                metrics |-> calculate_layout_metrics_with_frequency(hin, ScenarioFrequencies)]
    /\ UNCHANGED <<robots, current_orders, simulation, last_dispatch, hin>>

LayoutMetricsNext == CalculateLayoutMetricsCall

LayoutMetricsSpec == LayoutMetricsInit /\ [][LayoutMetricsNext]_vars

\* The layout has no shelves, no entry points or no packing stations
C22_Incomplete(layout) ==
    \/ layout.shelves = <<>>
    \/ "entryPoints" \notin DOMAIN layout
    \/ layout.entryPoints = <<>>
    \/ "packingStations" \notin DOMAIN layout
    \/ layout.packingStations = <<>>

\* C22: for a layout with no shelves, no entry points or no packing stations
\* the metrics returned are efficiency 0, distance_score 0 and frequency_score
\* 0; the call returns them, it raises nothing.
C22_IncompleteLayoutZeroMetrics ==
    (hout.done /\ C22_Incomplete(hin)) =>
        /\ hout.metrics.efficiency = FZero
        /\ hout.metrics.distance_score = FZero
        /\ hout.metrics.frequency_score = FZero

\* The metrics of a layout with shelves and an entry point but no packing
\* station have been computed
C22_Witness ==
    /\ hout.done
    /\ hin.shelves # <<>>
    /\ "entryPoints" \in DOMAIN hin /\ hin.entryPoints # <<>>
    /\ C22_Incomplete(hin)
    /\ hout.metrics.efficiency = FZero

----------------------------------------------------------------------------
(* QLearningAgent.train for every number of episodes up to MaxEpisodes and   *)
(* every sequence of actions (TrainSpec)                                     *)

MaxEpisodes == 2

MaxTrainShelves == 2

TrainShelves ==
    {[id |-> 1, category |-> "A", row |-> 0, col |-> 0],
     [id |-> 2, category |-> "B", row |-> 3, col |-> 1]}

TrainInit ==
    /\ NoSystem
    /\ hin \in {[shelves |-> sh, entryPoints |-> en, packingStations |-> pk, gridSize |-> 4] :
                   sh \in UNION {[1..n -> TrainShelves] : n \in 0..MaxTrainShelves},
                   en \in RLEntryPoints,
                   pk \in RLPackingStations}
    /\ hout = [done |-> FALSE]

TrainCall ==
    /\ ~hout.done
    /\ \E episodes \in 0..MaxEpisodes :
       \E actions \in [1..episodes -> AgentActions] :
          hout' = [done |-> TRUE, actions |-> actions,
                   results |-> train(hin, ScenarioFrequencies, actions).results]
    /\ UNCHANGED <<robots, current_orders, simulation, last_dispatch, hin>>

TrainNext == TrainCall

TrainSpec == TrainInit /\ [][TrainNext]_vars

\* The value of a natural given by its digits
RECURSIVE C23_ToInt(_)
C23_ToInt(digits) ==
    IF digits = <<>> THEN 0 ELSE Head(digits) + LimbBase * C23_ToInt(Tail(digits))

\* The whole millionths in the double x (x below 2000)
C23_Millionths(x) ==
    C23_ToInt(BShr(BMulSmall(BMulSmall(x.m, 1000), 1000), -x.e))

\* The frequencies of ScenarioFrequencies as whole numbers
C23_Percent == [A |-> 80, B |-> 20]

\* The whole millionths in the sum over the shelves from shelf k on of
\* (frequency / 100) * 100 / (distance to the nearest entry + distance to the
\* nearest packing station + 1), each term cut to whole millionths
RECURSIVE C23_SumFrom(_, _)
C23_SumFrom(layout, k) ==
    IF k > Len(layout.shelves) THEN 0
    ELSE LET shelf == layout.shelves[k]
             distance == NearestDistance(shelf, layout.entryPoints)
                           + NearestDistance(shelf, layout.packingStations)
         IN  ((C23_Percent[shelf.category] * 1000000) \div (distance + 1))
                + C23_SumFrom(layout, k + 1)

\* The reward is the mean of the formula, to some millionths
C23_IsMean(reward, layout) ==
    Abs(C23_Millionths(reward) - (C23_SumFrom(layout, 1) \div Len(layout.shelves))) <= 3

\* C23: a training of k episodes returns exactly k entries, numbered 1..k in
\* order; for a layout with shelves, entry points and packing stations the
\* reward of each is the mean over the shelves of frequencyWeight(category) *
\* 100 / (distance to the nearest entry + distance to the nearest packing
\* station + 1); and the entries are the same whatever actions were chosen.
C23_RewardTrace ==
    hout.done =>
        /\ Len(hout.results) = Len(hout.actions)
        /\ \A i \in 1..Len(hout.results) :
              /\ hout.results[i].episode = i
              /\ (hin.shelves # <<>> /\ hin.entryPoints # <<>> /\ hin.packingStations # <<>>)
                    => C23_IsMean(hout.results[i].reward, hin)
              /\ \A j \in 1..Len(hout.results) :
                    hout.results[j].reward = hout.results[i].reward
        /\ \A actions \in [1..Len(hout.actions) -> {"optimize_path"}] :
              hout.results = train(hin, ScenarioFrequencies, actions).results

\* MaxEpisodes episodes with more than one kind of action on a layout of two
\* shelves of different categories with an entry point and a packing station
C23_Witness ==
    /\ hout.done
    /\ Len(hout.results) = MaxEpisodes
    /\ hout.actions[1] = "move_shelf" /\ hout.actions[2] = "swap_shelves"
    /\ Len(hin.shelves) = 2
    /\ hin.shelves[1].category # hin.shelves[2].category
    /\ hin.entryPoints # <<>> /\ hin.packingStations # <<>>
    /\ C23_Millionths(hout.results[1].reward) > 0

----------------------------------------------------------------------------
(* The shape of the paths _find_path finds (PathSpec) *)

C24_Cell(step) == <<step.x, step.y>>

\* C24: when _find_path finds a path from start to a different goal, the
\* steps do not contain the start, the last step is the goal, every step has
\* action "move" and lies on a walkable cell inside the grid, the first step
\* is 4-adjacent to the start and each step is 4-adjacent to the one before;
\* when start and goal are the same cell the path is empty.
C24_FoundPathShape ==
    hout.done =>
        /\ hout.start = hout.goal => hout.path = <<>>
        /\ (hout.start # hout.goal /\ ShortestDistance(hout.start, hout.goal, hin.wg) >= 0) =>
              /\ Len(hout.path) >= 1
              /\ C24_Cell(hout.path[Len(hout.path)]) = hout.goal
              /\ Manhattan(hout.start, C24_Cell(hout.path[1])) = 1
              /\ \A i \in 1..Len(hout.path) :
                    /\ hout.path[i].action = "move"
                    /\ C24_Cell(hout.path[i]) # hout.start
                    /\ is_valid_position(hin.wg, hout.path[i].x, hout.path[i].y)
                    /\ i > 1 => Manhattan(C24_Cell(hout.path[i - 1]), C24_Cell(hout.path[i])) = 1

\* A found path of at least four steps that starts on a shelf cell
C24_Witness ==
    /\ hout.done
    /\ ~is_valid_position(hin.wg, hout.start[1], hout.start[2])
    /\ ShortestDistance(hout.start, hout.goal, hin.wg) >= 4
    /\ Len(hout.path) >= 4
    /\ C24_Cell(hout.path[Len(hout.path)]) = hout.goal

----------------------------------------------------------------------------
(* Completion of dispatched orders (LiveSpec) *)

\* Order k is processing while the simulation runs
C25_Processing(k) ==
    /\ simulation
    /\ Len(current_orders) >= k
    /\ current_orders[k].status = "processing"

C25_Completed(k) ==
    /\ Len(current_orders) >= k
    /\ current_orders[k].status = "completed"

\* C25: under fair simulation ticks every order that becomes processing
\* eventually becomes completed.
C25_ProcessingOrderCompletes ==
    \A k \in 1..MaxOrders : C25_Processing(k) ~> C25_Completed(k)

----------------------------------------------------------------------------
(* Dispatches and fair simulation ticks on the warehouse of main.py and on   *)
(* the same warehouse without exits (FleetSpec)                              *)

FleetInit ==
    /\ robots = InitialRobots
    /\ current_orders = <<>>
    /\ simulation = FALSE
    /\ last_dispatch = [valid |-> FALSE]
    /\ hin \in {[wg |-> warehouse_grid], [wg |-> NoExitWarehouse]}
    /\ hout = [done |-> FALSE]

FleetRequest ==
    /\ Len(current_orders) < MaxOrders
    /\ \E items \in DispatchItems : create_order(hin.wg, items)

FleetNext ==
    \/ FleetRequest
    \/ StartSimulation
    \/ DispatchTick

FleetSpec == FleetInit /\ [][FleetNext]_vars /\ WF_vars(DispatchTick)

\* C26: under fair simulation ticks every robot that is busy while the
\* simulation runs eventually is idle again, whatever route the dispatch
\* assigned to it (with or without exits in the grid).
C26_BusyRobotReturnsIdle ==
    \A i \in 1..Len(InitialRobots) :
        (simulation /\ robots[i].status = "busy") ~> (robots[i].status = "idle")

\* On the grid without exits two robots were dispatched and both are idle
\* again, their routes cleared
C26_Witness ==
    /\ hin.wg = NoExitWarehouse
    /\ simulation
    /\ Len(current_orders) = 2
    /\ \A k \in 1..2 :
          /\ current_orders[k].status = "processing"
          /\ \E i \in 1..Len(robots) :
                /\ robots[i].id = current_orders[k].assigned_robot
                /\ robots[i].status = "idle"
                /\ robots[i].route = PyList(<<>>)
    /\ current_orders[1].assigned_robot # current_orders[2].assigned_robot

----------------------------------------------------------------------------
(* The fleet and the orders agree (DispatchSpec) *)

\* C27: a robot is busy exactly when its current_order is set; the
\* current_order of every busy robot is the id of an order whose status is
\* processing and whose assigned_robot is that robot; every idle robot has an
\* empty route and cursor 0.
C27_FleetConsistent ==
    \A i \in 1..Len(robots) :
        /\ (robots[i].status = "busy") <=> (robots[i].current_order # 0)
        /\ robots[i].status = "busy" =>
              \E k \in 1..Len(current_orders) :
                  /\ current_orders[k].id = robots[i].current_order
                  /\ current_orders[k].status = "processing"
                  /\ current_orders[k].assigned_robot = robots[i].id
        /\ robots[i].status = "idle" =>
              /\ robots[i].route = PyList(<<>>)
              /\ robots[i].current_position = 0

\* One robot is part way through its route, another has finished its route
\* and is idle again, and an order is pending
C27_Witness ==
    /\ \E i \in 1..Len(robots) :
          robots[i].status = "busy" /\ robots[i].current_position > 0
    /\ \E i \in 1..Len(robots), k \in 1..Len(current_orders) :
          /\ robots[i].status = "idle"
          /\ current_orders[k].assigned_robot = robots[i].id
    /\ \E k \in 1..Len(current_orders) : current_orders[k].status = "pending"

----------------------------------------------------------------------------
(* Order ids (Spec) *)

\* C28: under every interleaving of create_order requests and simulation
\* ticks that generate orders, the k-th order appended has id k, so no two
\* orders have the same id.
C28_OrderIdsInSequence ==
    /\ \A k \in 1..Len(current_orders) : current_orders[k].id = k
    /\ \A j, k \in 1..Len(current_orders) :
          j # k => current_orders[j].id # current_orders[k].id

\* An order a tick generated, followed by an order a request created and
\* dispatched
C28_Witness ==
    /\ Len(current_orders) >= 2
    /\ current_orders[1].status = "pending"
    /\ Len(current_orders[1].items) = 1
    /\ current_orders[1].items[1].quantity = 5
    /\ current_orders[2].status = "processing"
    /\ current_orders[2].id = 2
    /\ last_dispatch.valid /\ last_dispatch.order_id = 2

----------------------------------------------------------------------------
(* The cells of the optimized layout (LayoutSpec) *)

\* Every shelf is inside the grid and no two shelves are on the same cell
C29_WellPlaced(layout) ==
    /\ \A k \in 1..Len(layout.shelves) :
          /\ 0 <= layout.shelves[k].row /\ layout.shelves[k].row < layout.gridSize
          /\ 0 <= layout.shelves[k].col /\ layout.shelves[k].col < layout.gridSize
    /\ \A j, k \in 1..Len(layout.shelves) :
          j # k => <<layout.shelves[j].row, layout.shelves[j].col>>
                      # <<layout.shelves[k].row, layout.shelves[k].col>>

\* C29: in the layout get_optimized_layout returns for a well-placed layout
\* with an entry point, every shelf is inside the grid and no two shelves
\* occupy the same cell.
C29_OptimizedWellPlaced ==
    (hout.done /\ hin.entryPoints # <<>> /\ C29_WellPlaced(hin)) =>
        C29_WellPlaced(hout.layout)

----------------------------------------------------------------------------
(* ConnectionManager: a broadcast, suspended in each send, with clients      *)
(* connecting and disconnecting in between (BroadcastSpec)                   *)

\* The websockets there are
MaxConnections == 3

\* list.remove(websocket) when it is in the list: the first occurrence goes
disconnect(active_connections, websocket) ==
    IF \E k \in 1..Len(active_connections) : active_connections[k] = websocket
    THEN RemoveFirst(active_connections, websocket)
    ELSE active_connections

\* "Remove disconnected connections": disconnect for each of them in turn
RECURSIVE RemoveDisconnected(_, _)
RemoveDisconnected(active_connections, disconnected) ==
    IF disconnected = <<>> THEN active_connections
    ELSE RemoveDisconnected(disconnect(active_connections, Head(disconnected)),
                            Tail(disconnected))

\* The broadcast from the end of one send to its next suspension: the list
\* iterator yields active_connections[index] (from 0) of the list as it is
\* now and the send to it begins, or the list is exhausted, the connections
\* whose send failed are removed and the broadcast returns
BroadcastResume(m) ==
    IF m.index < Len(m.active_connections)
    THEN [m EXCEPT !.phase = "send",
                   !.connection = m.active_connections[m.index + 1],
                   !.index = m.index + 1,
                   !.sent = @ \cup {m.active_connections[m.index + 1]}]
    ELSE [m EXCEPT !.phase = "done",
                   !.connection = 0,
                   !.active_connections = RemoveDisconnected(m.active_connections, m.disconnected)]

BroadcastInit ==
    /\ NoSystem
    /\ hin = [unused |-> TRUE]
    /\ \E n \in 0..MaxConnections :
          hout = [phase |-> "idle", active_connections |-> [k \in 1..n |-> k],
                  accepted |-> 1..n, index |-> 0, connection |-> 0,
                  disconnected |-> <<>>, sent |-> {}, failed |-> {},
                  at_start |-> {}, removed |-> {}]

\* broadcast is called: `disconnected = []`, the iteration begins
BroadcastStart ==
    /\ hout.phase = "idle"
    /\ hout' = BroadcastResume([hout EXCEPT !.at_start = Range(hout.active_connections)])
    /\ UNCHANGED <<robots, current_orders, simulation, last_dispatch, hin>>

\* `await connection.send_text(message)` returns
SendReturns ==
    /\ hout.phase = "send"
    /\ hout' = BroadcastResume(hout)
    /\ UNCHANGED <<robots, current_orders, simulation, last_dispatch, hin>>

\* `await connection.send_text(message)` raises
SendRaises ==
    /\ hout.phase = "send"
    /\ hout' = BroadcastResume([hout EXCEPT !.disconnected = Append(@, hout.connection),
                                            !.failed = @ \cup {hout.connection}])
    /\ UNCHANGED <<robots, current_orders, simulation, last_dispatch, hin>>

\* websocket_endpoint: connect appends a websocket just accepted
Connect ==
    /\ hout.phase # "done"
    /\ \E websocket \in (1..MaxConnections) \ hout.accepted :
          hout' = [hout EXCEPT !.active_connections = Append(@, websocket),
                               !.accepted = @ \cup {websocket}]
    /\ UNCHANGED <<robots, current_orders, simulation, last_dispatch, hin>>

\* websocket_endpoint: WebSocketDisconnect, or the cleanup of another
\* broadcast, calls disconnect(websocket)
Disconnect ==
    /\ hout.phase # "done"
    /\ \E websocket \in Range(hout.active_connections) :
          hout' = [hout EXCEPT !.active_connections = disconnect(@, websocket),
                               !.removed = IF hout.phase = "send"
                                           THEN @ \cup {websocket} ELSE @]
    /\ UNCHANGED <<robots, current_orders, simulation, last_dispatch, hin>>

BroadcastNext ==
    \/ BroadcastStart
    \/ SendReturns
    \/ SendRaises
    \/ Connect
    \/ Disconnect

BroadcastSpec == BroadcastInit /\ [][BroadcastNext]_vars

\* C30: when a broadcast has returned, the message was sent to every
\* connection that was registered when it started and was not disconnected
\* before it ended, and no connection whose send failed is still in
\* active_connections.
C30_BroadcastReachesAll ==
    hout.phase = "done" =>
        /\ \A c \in hout.at_start \ (hout.removed \cup hout.failed) : c \in hout.sent
        /\ \A c \in hout.failed : c \notin Range(hout.active_connections)

====
